---- MODULE Spec2Model ----
(***************************************************************************)
(* ReprobationTool front end (script.js): score classification, sentiment  *)
(* share normalisation, article de-duplication, selection / highlight      *)
(* synchronisation and the popup loading sessions.                         *)
(*                                                                         *)
(* JavaScript values are records [t |-> type tag, v |-> value]. Scores are *)
(* fixed-point: the integer s stands for the number s / Denom. Shares are  *)
(* exact fractions [num, den].                                             *)
(***************************************************************************)
EXTENDS Integers, Sequences, FiniteSets, TLC

VARIABLES
  popup,              \* the popup's DOM: visibility flags and field texts
  sessions,           \* the openPopup invocations, in the order they started
  selectedCountryEl,  \* id of the selected svg path, or Null
  selectedName,       \* text of #selected-country-name
  btnDisabled,        \* #calculate-score-btn.disabled
  pathStyle,          \* per svg path: inline strokeWidth and fill
  countryList,        \* children of #country-list, in document order
  filterValue,        \* value of #country-filter
  classifyCall,       \* last application of scoreToLevel
  sharesCall,         \* last application of calculateSentimentShares
  mergeCall,          \* last run of the latest-news merge
  feedCall,           \* last ordering and truncation of an article list
  searchCall,         \* last ranking and highlighting of one label
  boot                \* the DOMContentLoaded handler: responses, phase and what it built

vars == <<popup, sessions, selectedCountryEl, selectedName, btnDisabled,
          pathStyle, countryList, filterValue,
          classifyCall, sharesCall, mergeCall, feedCall, searchCall, boot>>

uiVars == <<popup, sessions, selectedCountryEl, selectedName, btnDisabled,
            pathStyle, countryList, filterValue>>

pureVars == <<classifyCall, sharesCall, mergeCall, feedCall, searchCall, boot>>

-----------------------------------------------------------------------------
(* Bounds of the model *)

Denom == 10          \* scores have one decimal digit
MaxSessions == 2     \* openPopup invocations in one behaviour
MaxCount == 4        \* largest sentiment count
MaxArticles == 2     \* articles in the input lists of one merge
MaxFeed == 22        \* articles in a list that is ordered and truncated

-----------------------------------------------------------------------------
(* JavaScript values *)

Null == "null"
Undef == [t |-> "undefined", v |-> 0]
Num(n) == [t |-> "number", v |-> n]
Str(s) == [t |-> "string", v |-> s]
Obj(o) == [t |-> "object", v |-> o]
Arr(a) == [t |-> "array", v |-> a]

\* a ?? b
Coalesce(a, b) == IF a.t = "undefined" THEN b ELSE a

\* truthiness of a number, string, null, undefined or object value
Truthy(x) ==
  CASE x.t \in {"undefined", "null"} -> FALSE
    [] x.t = "number" -> x.v # 0
    [] x.t = "string" -> x.v # ""
    [] OTHER -> TRUE

-----------------------------------------------------------------------------
(* Constants of script.js *)

SELECTED_FILL == "#bbdefb"
NEUTRAL_SCORE == 90
NO_DATA_SCORE_TEXT == "Not enough data"
NO_DATA_ASSESSMENT_TEXT == "No information available"
PRANK_COUNTRY_ID == "NL"
DASH == "--"           \* the em dash placeholder
NO_ARTICLES_COUNTRY == "No recent articles available for this country."
NO_ARTICLES_GLOBAL == "No recent articles available."
GLOBAL_LIMIT == 20
POPUP_LIMIT == 12

SCORE_LEVELS == <<
  [min |-> 0,  max |-> 9,   label |-> "Damnation",           color |-> "#b71c1c"],
  [min |-> 10, max |-> 18,  label |-> "Excommunication",     color |-> "#c62828"],
  [min |-> 19, max |-> 27,  label |-> "Reprobation",         color |-> "#d32f2f"],
  [min |-> 28, max |-> 36,  label |-> "Strong Denunciation", color |-> "#e53935"],
  [min |-> 37, max |-> 45,  label |-> "Denunciation",        color |-> "#ef5350"],
  [min |-> 46, max |-> 54,  label |-> "Strong Reproach",     color |-> "#ffb74d"],
  [min |-> 55, max |-> 63,  label |-> "Reproach",            color |-> "#ffd54f"],
  [min |-> 64, max |-> 72,  label |-> "Extreme Disapproval", color |-> "#fff176"],
  [min |-> 73, max |-> 81,  label |-> "Strong Disapproval",  color |-> "#dce775"],
  [min |-> 82, max |-> 90,  label |-> "Disapproval",         color |-> "#aed581"],
  [min |-> 91, max |-> 100, label |-> "No Commentary",       color |-> "#66bb6a"] >>

NoLevel == [min |-> -1, max |-> -1, label |-> "undefined", color |-> "undefined"]

\* faulty variant: the upper end of a band is excluded
LevelMatchesStrict(l, score) ==
  /\ score.t = "number"
  /\ score.v >= l.min * Denom
  /\ score.v < l.max * Denom

\* l => score >= l.min && score <= l.max, for a score value (a number or undefined)
LevelMatches(l, score) ==
  /\ score.t = "number"
  /\ score.v >= l.min * Denom
  /\ score.v <= l.max * Denom

\* Array.prototype.find: the first matching level, or undefined
scoreToLevel(score) ==
  LET hits == {i \in 1..Len(SCORE_LEVELS) : LevelMatches(SCORE_LEVELS[i], score)}
  IN  IF hits = {} THEN NoLevel
      ELSE SCORE_LEVELS[CHOOSE i \in hits : \A j \in hits : i <= j]

scoreToColor(score) ==
  LET level == scoreToLevel(score)
  IN  IF level = NoLevel THEN "#ccc" ELSE level.color

-----------------------------------------------------------------------------
(* Sentiment shares *)

Frac(n, d) == [num |-> n, den |-> d]
minShare == 5

\* faulty variant: the negative count is left out of the zero test
zeroCountPosNeu(pos, neu, neg) ==
  (IF pos = 0 THEN 1 ELSE 0) + (IF neu = 0 THEN 1 ELSE 0)

\* [pos, neu, neg].filter(value => value === 0).length
zeroCount(pos, neu, neg) ==
  (IF pos = 0 THEN 1 ELSE 0) + (IF neu = 0 THEN 1 ELSE 0) + (IF neg = 0 THEN 1 ELSE 0)

\* Math.max(a, b)
Max(a, b) == IF a >= b THEN a ELSE b

\* faulty variant: the non-zero categories share 100 instead of the remaining budget
FlooredShareNoReserve(count, nonZeroTotal, remaining) ==
  IF count = 0 THEN Frac(minShare, 1) ELSE Frac(count * 100, nonZeroTotal)

\* the share of one category in the branch with some count zero
FlooredShare(count, nonZeroTotal, remaining) ==
  IF count = 0 THEN Frac(minShare, 1) ELSE Frac(count * remaining, nonZeroTotal)

calculateSentimentShares(pos, neu, neg) ==
  LET total == pos + neu + neg
      emptyShare == Frac(100, 3)
      reserved == minShare * zeroCount(pos, neu, neg)
      remaining == Max(100 - reserved, 0)
      nonZeroTotal == pos + neu + neg
  IN  IF total = 0
        THEN [posShare |-> emptyShare, neuShare |-> emptyShare, negShare |-> emptyShare]
      ELSE IF zeroCount(pos, neu, neg) = 0
        THEN [posShare |-> Frac(pos * 100, total),
              neuShare |-> Frac(neu * 100, total),
              negShare |-> Frac(neg * 100, total)]
      ELSE [posShare |-> FlooredShare(pos, nonZeroTotal, remaining),
            neuShare |-> FlooredShare(neu, nonZeroTotal, remaining),
            negShare |-> FlooredShare(neg, nonZeroTotal, remaining)]

-----------------------------------------------------------------------------
(* Articles *)

NaN == [t |-> "NaN", v |-> 0]
Iso(ms) == [t |-> "iso", v |-> ms]      \* a timestamp string Date.parse reads as ms

DateParse(s) == IF s.t = "iso" THEN Num(s.v) ELSE NaN

\* Date.parse(article.published_at) || 0
publishedAtMs(article) ==
  LET ms == DateParse(article.published_at)
  IN  IF ms.t = "number" /\ ms.v # 0 THEN ms.v ELSE 0

\* article => ({...article, publishedAtMs: ...}); pos is the identity of the
\* new object: the index of the article in the mapped array
WithMs(article, pos) ==
  [id |-> article.id, url |-> article.url, title |-> article.title,
   summary |-> article.summary, published_at |-> article.published_at,
   pos |-> pos, publishedAtMs |-> publishedAtMs(article)]

\* faulty variant: the url is preferred to the id
DedupKeyUrlFirst(article) ==
  IF article.url # "" THEN article.url
  ELSE IF article.id # "" THEN article.id
  ELSE article.title

\* article.id || article.url || article.title ("" stands for every falsy value)
DedupKey(article) ==
  IF article.id # "" THEN article.id
  ELSE IF article.url # "" THEN article.url
  ELSE article.title

RECURSIVE dedupeKeepAll(_, _, _)
\* faulty variant: seen.has(key) is not consulted
dedupeKeepAll(articles, seen, unique) ==
  IF articles = <<>> THEN unique
  ELSE IF DedupKey(Head(articles)) = ""
    THEN dedupeKeepAll(Tail(articles), seen, unique)
    ELSE dedupeKeepAll(Tail(articles), seen, Append(unique, Head(articles)))

RECURSIVE dedupeFrom(_, _, _)
\* the forEach of dedupeArticles over the articles left, lines 180-185
dedupeFrom(articles, seen, unique) ==
  IF articles = <<>> THEN unique
  ELSE LET article == Head(articles)
           key == DedupKey(article)
       IN  IF key = "" \/ key \in seen
             THEN dedupeFrom(Tail(articles), seen, unique)
             ELSE dedupeFrom(Tail(articles), seen \cup {key}, Append(unique, article))

dedupeArticles(articles) == dedupeFrom(articles, {}, <<>>)

\* stable insertion of x into a sequence sorted by publishedAtMs descending
RECURSIVE InsertByMs(_, _)
InsertByMs(sorted, x) ==
  IF sorted = <<>> THEN <<x>>
  ELSE IF Head(sorted).publishedAtMs >= x.publishedAtMs
    THEN <<Head(sorted)>> \o InsertByMs(Tail(sorted), x)
    ELSE <<x>> \o sorted

\* articles.sort((a, b) => b.publishedAtMs - a.publishedAtMs), a stable sort
RECURSIVE SortByMsDesc(_)
SortByMsDesc(articles) ==
  IF articles = <<>> THEN <<>>
  ELSE InsertByMs(SortByMsDesc(SubSeq(articles, 1, Len(articles) - 1)),
                  articles[Len(articles)])

\* Array.prototype.slice(0, n)
Slice(s, n) == SubSeq(s, 1, IF Len(s) < n THEN Len(s) ELSE n)

\* text.length <= maxLength for every summary of the model
truncateText(text) == text

formatDateYMD(iso) == IF iso.t = "iso" THEN iso ELSE Str("")

createNewsItem(article) ==
  [title |-> IF article.title # "" THEN article.title ELSE "Untitled article",
   href |-> article.url,
   summary |-> truncateText(IF article.summary # "" THEN article.summary
                            ELSE "Summary not available."),
   date |-> formatDateYMD(article.published_at),
   pos |-> article.pos]

EmptyItem(emptyMessage) ==
  [title |-> emptyMessage, href |-> "", summary |-> "", date |-> Str(""), pos |-> 0]

\* the children of listEl after renderArticles(listEl, articles, emptyMessage)
RECURSIVE NewsItems(_)
NewsItems(articles) ==
  IF articles = <<>> THEN <<>>
  ELSE <<createNewsItem(Head(articles))>> \o NewsItems(Tail(articles))

renderArticles(articles, emptyMessage) ==
  IF Len(articles) = 0 THEN <<EmptyItem(emptyMessage)>> ELSE NewsItems(articles)

-----------------------------------------------------------------------------
(* The svg paths of the page, in document order. A path without a name     *)
(* attribute gets no row in #country-list.                                 *)

France == <<"F", "r", "a", "n", "c", "e">>
Netherlands == <<"N", "e", "t", "h", "e", "r", "l", "a", "n", "d", "s">>
Bosnia == <<"B", "o", "s", "n", "i", "a", " ", "a", "n", "d", " ",
            "H", "e", "r", "z", "e", "g", "o", "v", "i", "n", "a">>
\* "U+00FC" is the code unit of u with diaeresis
Turkiye == <<"T", "U+00FC", "r", "k", "i", "y", "e">>
NoName == <<>>

Paths == <<
  [id |-> "BA", name |-> Bosnia,      eu |-> FALSE],
  [id |-> "FR", name |-> France,      eu |-> TRUE],
  [id |-> "XK", name |-> NoName,      eu |-> FALSE],
  [id |-> "TR", name |-> Turkiye,     eu |-> FALSE],
  [id |-> "NL", name |-> Netherlands, eu |-> TRUE] >>

PathIds == {Paths[i].id : i \in 1..Len(Paths)}
PathOf(id) == Paths[CHOOSE i \in 1..Len(Paths) : Paths[i].id = id]

\* countryEl.getAttribute("name") || countryEl.id
NameOrId(id) == IF PathOf(id).name # NoName THEN PathOf(id).name ELSE <<id>>

-----------------------------------------------------------------------------
(* Detail payloads a countries/<code>.json fetch can deliver *)

Article(id, url, title, published_at) ==
  [id |-> id, url |-> url, title |-> title, summary |-> "",
   published_at |-> published_at]

JsonNull == [t |-> "null", v |-> 0]

Detail(score, trend, articles, sentiment, latest_articles, last_updated) ==
  Obj([score |-> score, trend |-> trend, articles |-> articles, sources |-> Undef,
       sentiment |-> sentiment, latest_articles |-> latest_articles,
       last_updated |-> last_updated])

Sentiment(pos, neu, neg) == Obj([positive |-> pos, neutral |-> neu, negative |-> neg])

TwoArticles ==
  Arr(<<Obj(Article("a1", "u1", "Older", Iso(1))),
        Obj(Article("a2", "u2", "Newer", Iso(2)))>>)

\* the same article delivered twice
TwinArticles ==
  Arr(<<Obj(Article("a1", "u1", "Older", Iso(1))),
        Obj(Article("a1", "u1", "Older", Iso(1)))>>)

Payloads == {
  \* a scored country
  Detail(Num(50 * Denom), Num(2), Num(3), Sentiment(2, 1, 0), TwoArticles, Iso(7)),
  \* a country without articles whose record still carries a score
  Detail(Num(70 * Denom), Num(-1), Num(0), Sentiment(0, 0, 0), Arr(<<>>), Iso(8)),
  \* a score between two bands
  Detail(Num((19 * Denom) \div 2), Undef, Num(1), Undef, Undef, Undef),
  \* a null entry in latest_articles
  Detail(Num(95 * Denom), Num(0), Undef, Sentiment(1, 1, 1), Arr(<<JsonNull>>), Iso(9)),
  \* no articles, no score
  Detail(Undef, Num(3), Num(0), Undef, Undef, Iso(8)),
  \* an empty article list and no count, a score between two bands
  Detail(Num((19 * Denom) \div 2), Num(2), Undef, Sentiment(0, 0, 0), Arr(<<>>), Undef),
  \* the scored country with its trend as {delta: 2}
  Detail(Num(50 * Denom), Obj([delta |-> Num(2)]), Num(3), Sentiment(2, 1, 0),
         TwoArticles, Iso(7)),
  \* the scored country with one article listed twice
  Detail(Num(50 * Denom), Num(2), Num(3), Sentiment(2, 1, 0), TwinArticles, Iso(7)),
  \* the JSON text "null"
  JsonNull }

-----------------------------------------------------------------------------
(* The popup *)

ZeroShares == [posShare |-> Frac(0, 1), neuShare |-> Frac(0, 1), negShare |-> Frac(0, 1)]

\* the text a value shows as when assigned to innerText
ToText(x) == IF x.t = "undefined" THEN Str("undefined") ELSE x

\* Number(x) for a number, undefined or an object
ToNumber(x) == IF x.t = "number" THEN x ELSE NaN

\* new Date(x).toLocaleString()
DateText(x) == IF x.t = "iso" THEN x ELSE Str("Invalid Date")

resetPopupData(p) ==
  [p EXCEPT !.countryScore = Str(""), !.countryTrend = Str(""),
            !.countryArticles = Str(""), !.assessment = Str(""),
            !.sentPos = Str(""), !.sentNeu = Str(""), !.sentNeg = Str(""),
            !.lastUpdated = Str(""), !.news = <<>>, !.barWidth = ZeroShares]

\* data.articles ?? data.sources ?? data.latest_articles?.length ?? 0
PopupArticleCount(d) ==
  LET latestLen == IF d.latest_articles.t = "array"
                     THEN Num(Len(d.latest_articles.v)) ELSE Undef
  IN  Coalesce(d.articles, Coalesce(d.sources, Coalesce(latestLen, Num(0))))

\* faulty variant: a score without a level is shown and nothing is thrown
RenderScoreLenient(p, d, articleCount) ==
  LET level == scoreToLevel(d.score)
      bold == [p EXCEPT !.scoreBold = TRUE]
  IN  IF articleCount = Num(0)
        THEN [dom |-> [bold EXCEPT !.countryScore = Str(NO_DATA_SCORE_TEXT),
                                   !.scoreColor = "#777",
                                   !.assessment = Str(NO_DATA_ASSESSMENT_TEXT),
                                   !.assessmentColor = "#777"],
              threw |-> FALSE]
      ELSE IF level = NoLevel
        THEN [dom |-> [bold EXCEPT !.countryScore = ToText(d.score),
                                   !.scoreColor = "#777"],
              threw |-> FALSE]
      ELSE [dom |-> [bold EXCEPT !.countryScore = ToText(d.score),
                                 !.scoreColor = level.color,
                                 !.assessment = Str(level.label),
                                 !.assessmentColor = level.color],
            threw |-> FALSE]

\* lines 365-377: score and assessment; throws at level.label without a level
RenderScore(p, d, articleCount) ==
  LET level == scoreToLevel(d.score)
      bold == [p EXCEPT !.scoreBold = TRUE]
  IN  IF articleCount = Num(0)
        THEN [dom |-> [bold EXCEPT !.countryScore = Str(NO_DATA_SCORE_TEXT),
                                   !.scoreColor = "#777",
                                   !.assessment = Str(NO_DATA_ASSESSMENT_TEXT),
                                   !.assessmentColor = "#777"],
              threw |-> FALSE]
      ELSE IF level = NoLevel
        THEN [dom |-> [bold EXCEPT !.countryScore = ToText(d.score),
                                   !.scoreColor = "#777"],
              threw |-> TRUE]
      ELSE [dom |-> [bold EXCEPT !.countryScore = ToText(d.score),
                                 !.scoreColor = level.color,
                                 !.assessment = Str(level.label),
                                 !.assessmentColor = level.color],
            threw |-> FALSE]

\* faulty variant: the trend is shown whatever the article count
RenderTrendAnyCount(p, d, articleCount) ==
  LET delta == ToNumber(d.trend)
      cleared == [p EXCEPT !.trendClass = {}]
  IN  IF delta.t # "number" THEN [cleared EXCEPT !.countryTrend = Str("")]
      ELSE IF delta.v = 0 THEN [cleared EXCEPT !.countryTrend = Str("= 0")]
      ELSE IF delta.v > 0
        THEN [cleared EXCEPT !.trendClass = {"up"},
                             !.countryTrend = [t |-> "up +", v |-> delta.v]]
      ELSE [cleared EXCEPT !.trendClass = {"down"},
                           !.countryTrend = [t |-> "down", v |-> delta.v]]

\* lines 380-400
RenderTrend(p, d, articleCount) ==
  LET delta == ToNumber(d.trend)
      cleared == [p EXCEPT !.trendClass = {}]
  IN  IF articleCount = Num(0) THEN [cleared EXCEPT !.countryTrend = Str("")]
      ELSE IF delta.t # "number" THEN [cleared EXCEPT !.countryTrend = Str("")]
      ELSE IF delta.v = 0 THEN [cleared EXCEPT !.countryTrend = Str("= 0")]
      ELSE IF delta.v > 0
        THEN [cleared EXCEPT !.trendClass = {"up"},
                             !.countryTrend = [t |-> "up +", v |-> delta.v]]
      ELSE [cleared EXCEPT !.trendClass = {"down"},
                           !.countryTrend = [t |-> "down", v |-> delta.v]]

\* data.latest_articles.map(article => ...)
MapWithMs(items) == [i \in 1..Len(items) |-> WithMs(items[i].v, i)]

HasNullEntry(items) == \E i \in 1..Len(items) : items[i].t = "null"

\* lines 406-419: the country's article list; throws on a null entry
RenderNews(p, d) ==
  LET isArray == d.latest_articles.t = "array"
  IN  IF isArray /\ HasNullEntry(d.latest_articles.v)
        THEN [dom |-> p, threw |-> TRUE]
        ELSE LET countryArticles ==
                   IF isArray THEN MapWithMs(d.latest_articles.v) ELSE <<>>
                 sorted == SortByMsDesc(countryArticles)
             IN  [dom |-> [p EXCEPT !.news =
                             renderArticles(Slice(sorted, POPUP_LIMIT), NO_ARTICLES_COUNTRY)],
                  threw |-> FALSE]

\* lines 421-483: bars, numbers and tooltip listeners
RenderSentiment(p, d) ==
  LET pos == IF d.sentiment.t = "object" THEN d.sentiment.v.positive ELSE 0
      neu == IF d.sentiment.t = "object" THEN d.sentiment.v.neutral ELSE 0
      neg == IF d.sentiment.t = "object" THEN d.sentiment.v.negative ELSE 0
      shares == calculateSentimentShares(pos, neu, neg)
  IN  [p EXCEPT !.barWidth = shares, !.sentFlex = shares,
                !.sentPos = Num(pos), !.sentNeu = Num(neu), !.sentNeg = Num(neg),
                !.barListeners = @ + 1]

\* the try block after delay(1500), lines 357-486
TryRender(p, data) ==
  IF data.t = "null" THEN [dom |-> p, threw |-> TRUE]
  ELSE LET d == data.v
           articleCount == PopupArticleCount(d)
           scored == RenderScore(p, d, articleCount)
           counted == [RenderTrend(scored.dom, d, articleCount)
                         EXCEPT !.countryArticles = ToText(articleCount)]
           listed == RenderNews(counted, d)
       IN  IF scored.threw THEN scored
           ELSE IF listed.threw THEN listed
           ELSE [dom |-> [RenderSentiment(listed.dom, d)
                            EXCEPT !.lastUpdated = DateText(d.last_updated)],
                 threw |-> FALSE]

\* faulty variant: the article list is left as it is
CatchBlockKeepsNews(p) ==
  [p EXCEPT !.errorHidden = FALSE, !.sentimentDisplay = "none",
            !.countryScore = Str(DASH), !.countryArticles = Str(DASH),
            !.lastUpdated = Str(DASH)]

\* the catch block, lines 488-498
CatchBlock(p) ==
  [p EXCEPT !.errorHidden = FALSE, !.sentimentDisplay = "none",
            !.countryScore = Str(DASH), !.countryArticles = Str(DASH),
            !.lastUpdated = Str(DASH),
            !.news = renderArticles(<<>>, NO_ARTICLES_COUNTRY)]

\* faulty variant: the end of a session shows the overlay again
FinallyBlockShowsOverlay(p) ==
  [p EXCEPT !.loadingHidden = TRUE, !.dataHidden = FALSE, !.overlayHidden = FALSE]

\* the finally block, lines 499-502
FinallyBlock(p) == [p EXCEPT !.loadingHidden = TRUE, !.dataHidden = FALSE]

-----------------------------------------------------------------------------
(* Characters: case, canonical decomposition and the "en" collation        *)

LowerCase == <<"a", "b", "c", "d", "e", "f", "g", "h", "i", "j", "k", "l", "m",
               "n", "o", "p", "q", "r", "s", "t", "u", "v", "w", "x", "y", "z",
               "U+00FC", "U+00E9">>
UpperCase == <<"A", "B", "C", "D", "E", "F", "G", "H", "I", "J", "K", "L", "M",
               "N", "O", "P", "Q", "R", "S", "T", "U", "V", "W", "X", "Y", "Z",
               "U+00DC", "U+00C9">>

IndexIn(seq, c) == IF \E i \in 1..Len(seq) : seq[i] = c
                     THEN CHOOSE i \in 1..Len(seq) : seq[i] = c ELSE 0

\* String.prototype.toLowerCase, one code unit
ToLower(c) == IF IndexIn(UpperCase, c) # 0 THEN LowerCase[IndexIn(UpperCase, c)] ELSE c
ToUpper(c) == IF IndexIn(LowerCase, c) # 0 THEN UpperCase[IndexIn(LowerCase, c)] ELSE c

CombiningMarks == {"U+0301", "U+0308"}      \* within \u0300-\u036f

\* normalize("NFD"), one code unit
Decompose(c) ==
  CASE c = "U+00FC" -> <<"u", "U+0308">>
    [] c = "U+00DC" -> <<"U", "U+0308">>
    [] c = "U+00E9" -> <<"e", "U+0301">>
    [] c = "U+00C9" -> <<"E", "U+0301">>
    [] OTHER -> <<c>>

\* primary collation order: white space and punctuation before letters
CollationOrder == <<" ", ".", "*", "(", ")", "+", "?",
                    "a", "b", "c", "d", "e", "f", "g", "h", "i", "j", "k", "l", "m",
                    "n", "o", "p", "q", "r", "s", "t", "u", "v", "w", "x", "y", "z">>

RECURSIVE SeqLess(_, _)
\* lexicographic order on sequences of integers
SeqLess(a, b) ==
  IF a = <<>> THEN b # <<>>
  ELSE IF b = <<>> THEN FALSE
  ELSE IF Head(a) # Head(b) THEN Head(a) < Head(b)
  ELSE SeqLess(Tail(a), Tail(b))

RECURSIVE FlatMapDecompose(_)
FlatMapDecompose(str) ==
  IF str = <<>> THEN <<>> ELSE Decompose(Head(str)) \o FlatMapDecompose(Tail(str))

\* the collation keys of a string: base letters, then accents, then case
PrimaryKey(str) ==
  LET d == SelectSeq(FlatMapDecompose(str), LAMBDA c : c \notin CombiningMarks)
  IN  [i \in 1..Len(d) |-> IndexIn(CollationOrder, ToLower(d[i]))]
SecondaryKey(str) ==
  [i \in 1..Len(str) |-> IF Len(Decompose(str[i])) > 1 THEN 1 ELSE 0]
TertiaryKey(str) ==
  [i \in 1..Len(str) |-> IF IndexIn(UpperCase, str[i]) # 0 THEN 1 ELSE 0]

\* a.localeCompare(b, "en") < 0
LocaleLess(a, b) ==
  \/ SeqLess(PrimaryKey(a), PrimaryKey(b))
  \/ /\ PrimaryKey(a) = PrimaryKey(b)
     /\ \/ SeqLess(SecondaryKey(a), SecondaryKey(b))
        \/ /\ SecondaryKey(a) = SecondaryKey(b)
           /\ SeqLess(TertiaryKey(a), TertiaryKey(b))

-----------------------------------------------------------------------------
(* Search and filter helpers *)

MapLower(str) == [i \in 1..Len(str) |-> ToLower(str[i])]

\* faulty variant: the combining marks are kept
normalizeKeepMarks(str) == FlatMapDecompose(MapLower(str))

\* str.toLowerCase().normalize("NFD").replace(/[\u0300-\u036f]/g, "")
normalize(str) ==
  SelectSeq(FlatMapDecompose(MapLower(str)), LAMBDA c : c \notin CombiningMarks)

\* String.prototype.startsWith at offset i (1-based)
MatchesAt(str, i, q) ==
  /\ i + Len(q) - 1 <= Len(str)
  /\ \A k \in 1..Len(q) : str[i + k - 1] = q[k]

\* n.split(" ").some(word => word.startsWith(q))
SomeWordStartsWith(n, q) ==
  \E i \in 1..(Len(n) + 1) :
    /\ i = 1 \/ n[i - 1] = " "
    /\ MatchesAt(n, i, q)
    /\ \A k \in 1..Len(q) : q[k] # " "

Includes(n, q) == \E i \in 1..(Len(n) + 1) : MatchesAt(n, i, q)

relevanceScore(name, query) ==
  IF query = <<>> THEN 1
  ELSE LET n == normalize(name)
           q == normalize(query)
       IN  IF MatchesAt(n, 1, q) THEN 300
           ELSE IF SomeWordStartsWith(n, q) THEN 200
           ELSE IF Includes(n, q) THEN 100
           ELSE 0

\* the characters /[.*+?^${}()|[\]\\]/ matches
PatternSpecials == {".", "*", "+", "?", "^", "$", "{", "}", "(", ")", "|", "[", "]", "\\"}

\* faulty variant: the query is used as the pattern source as it is
EscapeNothing(query) == query

RECURSIVE EscapeSpecials(_)
\* query.replace(/[.*+?^${}()|[\]\\]/g, "\\$&")
EscapeSpecials(query) ==
  IF query = <<>> THEN <<>>
  ELSE (IF Head(query) \in PatternSpecials THEN <<"\\", Head(query)>> ELSE <<Head(query)>>)
       \o EscapeSpecials(Tail(query))

RECURSIVE PatternAtoms(_)
\* what new RegExp reads in the pattern source: an escaped character is a
\* literal, an unescaped special character is an operator
PatternAtoms(source) ==
  IF source = <<>> THEN <<>>
  ELSE IF Head(source) = "\\" /\ Len(source) >= 2
    THEN <<[lit |-> TRUE, c |-> source[2]]>> \o PatternAtoms(SubSeq(source, 3, Len(source)))
  ELSE <<[lit |-> Head(source) \notin PatternSpecials, c |-> Head(source)]>>
       \o PatternAtoms(Tail(source))

\* the "i" flag compares code units by their upper case
AtomMatches(atom, c) ==
  IF atom.lit THEN ToUpper(atom.c) = ToUpper(c) ELSE atom.c = "."

RegexMatchesAt(text, i, atoms) ==
  /\ i + Len(atoms) - 1 <= Len(text)
  /\ \A k \in 1..Len(atoms) : AtomMatches(atoms[k], text[i + k - 1])

RECURSIVE ReplaceFrom(_, _, _)
\* text.replace(regex, "<mark>$1</mark>") with the "g" flag, scanning from i
ReplaceFrom(text, i, atoms) ==
  IF i > Len(text) THEN <<>>
  ELSE IF RegexMatchesAt(text, i, atoms)
    THEN <<"<mark>">> \o SubSeq(text, i, i + Len(atoms) - 1) \o <<"</mark>">>
         \o ReplaceFrom(text, i + Len(atoms), atoms)
  ELSE <<text[i]>> \o ReplaceFrom(text, i + 1, atoms)

highlightMatch(text, query) ==
  IF query = <<>> THEN text
  ELSE ReplaceFrom(text, 1, PatternAtoms(EscapeSpecials(query)))

RECURSIVE TrimLeft(_)
TrimLeft(str) == IF str # <<>> /\ Head(str) = " " THEN TrimLeft(Tail(str)) ELSE str
RECURSIVE TrimRight(_)
TrimRight(str) ==
  IF str # <<>> /\ str[Len(str)] = " "
    THEN TrimRight(SubSeq(str, 1, Len(str) - 1)) ELSE str
\* String.prototype.trim
Trim(str) == TrimRight(TrimLeft(str))

-----------------------------------------------------------------------------
(* Bootstrap: map colouring and the country list (DOMContentLoaded)        *)

\* countryScores / countryArticleCounts as loadCountryScores left them
BootSummaries ==
  [id \in PathIds |->
     CASE id = "BA" -> [score |-> Num(50 * Denom), articleCount |-> 3]
       [] id = "FR" -> [score |-> Num(95 * Denom), articleCount |-> 1]
       [] OTHER -> [score |-> Num(NEUTRAL_SCORE * Denom), articleCount |-> 0]]

\* lines 609-619: the fill of a path whose summary is given
FillFor(summary) ==
  IF summary.score.t # "undefined"
  THEN IF summary.articleCount = 0 THEN "#bdbdbd" ELSE scoreToColor(summary.score)
  ELSE ""

BootFill(id) == FillFor(BootSummaries[id])

RECURSIVE InsertByName(_, _)
InsertByName(sorted, x) ==
  IF sorted = <<>> THEN <<x>>
  ELSE IF LocaleLess(x.name, Head(sorted).name) THEN <<x>> \o sorted
  ELSE <<Head(sorted)>> \o InsertByName(Tail(sorted), x)

RECURSIVE SortByName(_)
\* entries.sort((a, b) => a.name.localeCompare(b.name, "en"))
SortByName(entries) ==
  IF entries = <<>> THEN <<>>
  ELSE InsertByName(SortByName(SubSeq(entries, 1, Len(entries) - 1)),
                    entries[Len(entries)])

SectionHeader(title) ==
  [section |-> TRUE, countryId |-> "", originalName |-> <<>>, html |-> <<title>>,
   active |-> FALSE, display |-> ""]

RowFor(country) ==
  [section |-> FALSE, countryId |-> country.id, originalName |-> country.name,
   html |-> country.name, active |-> FALSE, display |-> ""]

RECURSIVE RowsFor(_)
RowsFor(items) ==
  IF items = <<>> THEN <<>> ELSE <<RowFor(Head(items))>> \o RowsFor(Tail(items))

renderSection(title, items) == <<SectionHeader(title)>> \o RowsFor(items)

\* lines 627-679
BootCountryList ==
  LET named == SelectSeq(Paths, LAMBDA c : c.name # NoName)
      euCountries == SortByName(SelectSeq(named, LAMBDA c : c.eu))
      otherCountries == SortByName(SelectSeq(named, LAMBDA c : ~c.eu))
  IN  renderSection("European Union", euCountries) \o renderSection("Other", otherCountries)

InitialPopup ==
  [overlayHidden |-> TRUE, loadingHidden |-> TRUE, dataHidden |-> TRUE,
   errorHidden |-> TRUE, sentimentDisplay |-> "", title |-> <<>>,
   countryScore |-> Str(""), scoreColor |-> "", scoreBold |-> FALSE,
   assessment |-> Str(""), assessmentColor |-> "",
   countryTrend |-> Str(""), trendClass |-> {}, countryArticles |-> Str(""),
   news |-> <<>>, barWidth |-> ZeroShares, sentFlex |-> ZeroShares,
   sentPos |-> Str(""), sentNeu |-> Str(""), sentNeg |-> Str(""),
   barListeners |-> 0, lastUpdated |-> Str("")]

UIInit ==
  /\ popup = InitialPopup
  /\ sessions = <<>>
  /\ selectedCountryEl = Null
  /\ selectedName = <<>>
  /\ btnDisabled = TRUE
  /\ pathStyle = [id \in PathIds |->
                    [strokeWidth |-> "", fill |-> BootFill(id), originalFill |-> BootFill(id)]]
  /\ countryList = BootCountryList
  /\ filterValue = <<>>

NoClassify == [score |-> Undef, level |-> NoLevel, done |-> FALSE]
NoShares == [pos |-> 0, neu |-> 0, neg |-> 0, shares |-> ZeroShares, done |-> FALSE]
NoMerge == [results |-> <<>>, latestTwenty |-> <<>>, list |-> <<>>,
            placeholderDisplay |-> "", done |-> FALSE]

NoSearch == [name |-> <<>>, query |-> <<>>, name2 |-> <<>>, query2 |-> <<>>,
             score |-> 0, score2 |-> 0, markup |-> <<>>, done |-> FALSE]
NoFeed == [articles |-> <<>>, mode |-> "global", out |-> <<>>, done |-> FALSE]
\* no fetch issued yet
NoQuery == [name |-> "", kind |-> "", value |-> Null]
NoBoot == [index |-> "ok", responses |-> <<>>, phase |-> "off", DATA_VERSION |-> Null,
           summaries |-> <<>>, latestTwenty |-> <<>>, list |-> <<>>,
           placeholderDisplay |-> "", fill |-> <<>>, countryList |-> <<>>,
           listeners |-> FALSE, summaryQuery |-> NoQuery, newsQuery |-> NoQuery,
           settled |-> {}, order |-> <<>>, results |-> <<>>]

PureIdle ==
  /\ classifyCall = NoClassify
  /\ sharesCall = NoShares
  /\ mergeCall = NoMerge
  /\ feedCall = NoFeed
  /\ searchCall = NoSearch
  /\ boot = NoBoot

-----------------------------------------------------------------------------
(* Selection and highlighting *)

\* document.querySelector(`#country-list li[data-country-id="${countryId}"]`)
FirstRowOf(list, countryId) ==
  LET hits == {i \in 1..Len(list) : ~list[i].section /\ list[i].countryId = countryId}
  IN  IF hits = {} THEN 0 ELSE CHOOSE i \in hits : \A j \in hits : i <= j

\* faulty variant: the other paths are not reset
HighlightPathsNoReset(styles, countryId) ==
  [id \in PathIds |->
     IF id = countryId
       THEN [styles[id] EXCEPT !.strokeWidth = "2", !.fill = SELECTED_FILL]
       ELSE styles[id]]

\* faulty variant: the reset leaves the fill of the other paths as it is
HighlightPathsKeepsFill(styles, countryId) ==
  [id \in PathIds |->
     IF id = countryId
       THEN [styles[id] EXCEPT !.strokeWidth = "2", !.fill = SELECTED_FILL]
       ELSE [styles[id] EXCEPT !.strokeWidth = "0.5"]]

\* lines 263-269 and 275-279
HighlightPaths(styles, countryId) ==
  [id \in PathIds |->
     IF id = countryId
       THEN [styles[id] EXCEPT !.strokeWidth = "2", !.fill = SELECTED_FILL]
       ELSE [styles[id] EXCEPT !.strokeWidth = "0.5", !.fill = styles[id].originalFill]]

\* faulty variant: the active class is not removed from the other rows
HighlightRowsKeep(list, countryId) ==
  [i \in 1..Len(list) |->
     [list[i] EXCEPT !.active = (@ \/ i = FirstRowOf(list, countryId))]]

\* lines 271-273 and 281-286
HighlightRows(list, countryId) ==
  [i \in 1..Len(list) |->
     [list[i] EXCEPT !.active = (i = FirstRowOf(list, countryId))]]

highlightCountry(countryId) ==
  /\ pathStyle' = HighlightPaths(pathStyle, countryId)
  /\ countryList' = HighlightRows(countryList, countryId)

setSelectedCountry(id) ==
  /\ selectedCountryEl' = id
  /\ selectedName' = NameOrId(id)
  /\ btnDisabled' = FALSE

\* click on an svg path, lines 621-624
ClickPath(id) ==
  /\ highlightCountry(id)
  /\ setSelectedCountry(id)
  /\ UNCHANGED <<popup, sessions, filterValue>>
  /\ UNCHANGED pureVars

\* click on a visible row of the list, lines 669-672
ClickRow(i) ==
  /\ ~countryList[i].section
  /\ countryList[i].display = ""
  /\ highlightCountry(countryList[i].countryId)
  /\ setSelectedCountry(countryList[i].countryId)
  /\ UNCHANGED <<popup, sessions, filterValue>>
  /\ UNCHANGED pureVars

-----------------------------------------------------------------------------
(* The filter input handler, lines 683-727 *)

\* values typed into #country-filter
FilterValues == {
  <<>>, <<" ">>, <<"f", "R">>, <<"h", "e", "r", "z">>, <<"u">>, <<"E", "r", " ">>, <<".">>,
  <<"n">> }

\* faulty variant: the score is not compared
ScoredBeforeByName(a, b) == LocaleLess(a.name, b.name)

\* (a, b) => b.score - a.score || a.name.localeCompare(b.name, "en"), negative
ScoredBefore(a, b) ==
  \/ a.score > b.score
  \/ a.score = b.score /\ LocaleLess(a.name, b.name)

RECURSIVE InsertScored(_, _)
InsertScored(sorted, x) ==
  IF sorted = <<>> THEN <<x>>
  ELSE IF ScoredBefore(x, Head(sorted)) THEN <<x>> \o sorted
  ELSE <<Head(sorted)>> \o InsertScored(Tail(sorted), x)

RECURSIVE SortScored(_)
SortScored(scored) ==
  IF scored = <<>> THEN <<>>
  ELSE InsertScored(SortScored(SubSeq(scored, 1, Len(scored) - 1)), scored[Len(scored)])

\* number of rows that follow a section header up to the next header
RECURSIVE RowRun(_)
RowRun(list) ==
  IF list = <<>> \/ Head(list).section THEN 0 ELSE 1 + RowRun(Tail(list))

\* faulty variant: the items without a match are removed from the list
FilterSectionDropsHidden(header, items, query) ==
  LET scoredAll == [i \in 1..Len(items) |->
                      [li |-> items[i], name |-> items[i].originalName,
                       score |-> relevanceScore(items[i].originalName, query)]]
      scored == SortScored(SelectSeq(scoredAll, LAMBDA it : query = <<>> \/ it.score > 0))
      Show(it) == [it.li EXCEPT !.display = "", !.html = highlightMatch(it.name, query)]
  IN  <<[header EXCEPT !.display = IF Len(scored) > 0 THEN "" ELSE "none"]>>
      \o [i \in 1..Len(scored) |-> Show(scored[i])]

\* one section: hide and reset every item, then show the matching items,
\* highlighted, re-inserted in rank order before the next header
FilterSection(header, items, query) ==
  LET scoredAll == [i \in 1..Len(items) |->
                      [li |-> items[i], name |-> items[i].originalName,
                       score |-> relevanceScore(items[i].originalName, query)]]
      scored == SortScored(SelectSeq(scoredAll, LAMBDA it : query = <<>> \/ it.score > 0))
      hidden == SelectSeq(scoredAll, LAMBDA it : ~(query = <<>> \/ it.score > 0))
      Hide(it) == [it.li EXCEPT !.display = "none", !.html = it.li.originalName]
      Show(it) == [it.li EXCEPT !.display = "", !.html = highlightMatch(it.name, query)]
  IN  <<[header EXCEPT !.display = IF Len(scored) > 0 THEN "" ELSE "none"]>>
      \o [i \in 1..Len(hidden) |-> Hide(hidden[i])]
      \o [i \in 1..Len(scored) |-> Show(scored[i])]

RECURSIVE FilterSections(_, _)
FilterSections(list, query) ==
  IF list = <<>> THEN <<>>
  ELSE IF ~Head(list).section THEN <<Head(list)>> \o FilterSections(Tail(list), query)
  ELSE LET n == RowRun(Tail(list))
       IN  FilterSection(Head(list), SubSeq(list, 2, n + 1), query)
           \o FilterSections(SubSeq(list, n + 2, Len(list)), query)

FilterInput(value) ==
  /\ filterValue' = value
  /\ UNCHANGED <<popup, sessions, selectedCountryEl, selectedName, btnDisabled,
                 pathStyle>>
  /\ UNCHANGED pureVars
  /\ countryList' = FilterSections(countryList, Trim(value))

-----------------------------------------------------------------------------
(* Popup sessions: one per openPopup invocation *)

Unresolved == {i \in 1..Len(sessions) : sessions[i].pc # "done"}

\* the popup as lines 337-346 of openPopup leave it
OpenedPopup(p, id) ==
  [resetPopupData([p EXCEPT !.errorHidden = TRUE, !.sentimentDisplay = "",
                            !.title = NameOrId(id)])
     EXCEPT !.overlayHidden = FALSE, !.loadingHidden = FALSE, !.dataHidden = TRUE]

\* openPopup up to await nextFrame(), lines 330-348
openPopup(id) ==
  /\ Len(sessions) < MaxSessions
  /\ popup' = OpenedPopup(popup, id)
  /\ sessions' = Append(sessions, [code |-> id, pc |-> "frame", data |-> Undef,
                                   result |-> "pending", unresolved |-> Unresolved,
                                   query |-> NoQuery])

\* click on #calculate-score-btn with the prank country selected: window.open
\* opens another tab and leaves the page as it is
OpenPrank ==
  /\ ~btnDisabled
  /\ selectedCountryEl # Null
  /\ selectedCountryEl = PRANK_COUNTRY_ID
  /\ UNCHANGED <<popup, sessions, selectedCountryEl, selectedName, btnDisabled,
                 pathStyle, countryList, filterValue>>
  /\ UNCHANGED pureVars

\* click on #calculate-score-btn, lines 729-741
OpenDetail ==
  /\ ~btnDisabled
  /\ selectedCountryEl # Null
  /\ selectedCountryEl # PRANK_COUNTRY_ID
  /\ openPopup(selectedCountryEl)
  /\ UNCHANGED <<selectedCountryEl, selectedName, btnDisabled, pathStyle,
                 countryList, filterValue>>
  /\ UNCHANGED pureVars

closePopup ==
  /\ ~popup.overlayHidden
  /\ popup' = [popup EXCEPT !.overlayHidden = TRUE]
  /\ UNCHANGED <<sessions, selectedCountryEl, selectedName, btnDisabled, pathStyle,
                 countryList, filterValue>>
  /\ UNCHANGED pureVars

SessionFrame == <<selectedCountryEl, selectedName, btnDisabled, pathStyle,
                  countryList, filterValue, pureVars>>

\* the query of the popup's url, line 351
CacheBustQuery == [name |-> "cacheBust", kind |-> "Date.now", value |-> Null]

\* requestAnimationFrame fires; the session issues its fetch
NextFrame(i) ==
  /\ sessions[i].pc = "frame"
  /\ sessions' = [sessions EXCEPT ![i].pc = "fetch", ![i].query = CacheBustQuery]
  /\ UNCHANGED popup
  /\ UNCHANGED SessionFrame

\* faulty variant: the finally block is skipped
FailSkipsFinally(i) ==
  /\ popup' = CatchBlock(popup)
  /\ sessions' = [sessions EXCEPT ![i].pc = "done", ![i].result = "failed"]
  /\ UNCHANGED SessionFrame

\* control reaches the catch block, then the finally block
Fail(i) ==
  /\ popup' = FinallyBlock(CatchBlock(popup))
  /\ sessions' = [sessions EXCEPT ![i].pc = "done", ![i].result = "failed"]
  /\ UNCHANGED SessionFrame

\* the fetch rejects, or resolves with res.ok false and line 352 throws
FetchFails(i) ==
  /\ sessions[i].pc = "fetch"
  /\ Fail(i)

FetchOk(i) ==
  /\ sessions[i].pc = "fetch"
  /\ sessions' = [sessions EXCEPT ![i].pc = "json"]
  /\ UNCHANGED popup
  /\ UNCHANGED SessionFrame

\* res.json() rejects: the body is not JSON
JsonFails(i) ==
  /\ sessions[i].pc = "json"
  /\ Fail(i)

JsonOk(i, data) ==
  /\ sessions[i].pc = "json"
  /\ sessions' = [sessions EXCEPT ![i].pc = "delay", ![i].data = data]
  /\ UNCHANGED popup
  /\ UNCHANGED SessionFrame

\* delay(1500) elapses: lines 357-486, then catch on a throw, then finally
DelayElapses(i) ==
  /\ sessions[i].pc = "delay"
  /\ LET tried == TryRender(popup, sessions[i].data)
     IN  /\ popup' = FinallyBlock(IF tried.threw THEN CatchBlock(tried.dom) ELSE tried.dom)
         /\ sessions' = [sessions EXCEPT
                           ![i].pc = "done",
                           ![i].result = IF tried.threw THEN "failed" ELSE "ready"]
  /\ UNCHANGED SessionFrame

-----------------------------------------------------------------------------
(* The page after bootstrap *)

Init == UIInit /\ PureIdle

\* a step of one popup session
SessionStep(i) ==
  \/ NextFrame(i)
  \/ FetchFails(i)
  \/ FetchOk(i)
  \/ JsonFails(i)
  \/ \E data \in Payloads : JsonOk(i, data)
  \/ DelayElapses(i)

\* Popup sessions: the map clicks that select a country, the score button,
\* the close control and the steps of the sessions in flight
Next ==
  \/ \E id \in PathIds : ClickPath(id)
  \/ OpenPrank
  \/ OpenDetail
  \/ closePopup
  \/ \E i \in 1..Len(sessions) : SessionStep(i)

Spec == Init /\ [][Next]_vars

\* the page once the path BA has been clicked
InitLive ==
  /\ popup = InitialPopup
  /\ sessions = <<>>
  /\ selectedCountryEl = "BA"
  /\ selectedName = NameOrId("BA")
  /\ btnDisabled = FALSE
  /\ pathStyle = HighlightPaths([id \in PathIds |->
                                  [strokeWidth |-> "", fill |-> BootFill(id),
                                   originalFill |-> BootFill(id)]], "BA")
  /\ countryList = HighlightRows(BootCountryList, "BA")
  /\ filterValue = <<>>
  /\ PureIdle

\* a record that renders, a record that throws part-way, the JSON text "null"
LivePayloads ==
  {Detail(Num(50 * Denom), Num(2), Num(3), Sentiment(2, 1, 0), TwoArticles, Iso(7)),
   Detail(Num(95 * Denom), Num(0), Undef, Sentiment(1, 1, 1), Arr(<<JsonNull>>), Iso(9)),
   JsonNull}

\* res.json() of a response that arrived settles
SettleJson(i) ==
  /\ i <= Len(sessions)
  /\ (JsonFails(i) \/ \E data \in LivePayloads : JsonOk(i, data))

\* the timer of delay(1500) fires and the rest of openPopup runs
RunAfterDelay(i) == i <= Len(sessions) /\ DelayElapses(i)

LiveNext ==
  \/ OpenDetail
  \/ closePopup
  \/ \E i \in 1..Len(sessions) :
       NextFrame(i) \/ FetchFails(i) \/ FetchOk(i) \/ SettleJson(i) \/ RunAfterDelay(i)

\* The popup sessions of one selected country with the event loop's
\* guarantees: a body that arrived is read to its end, a timer that was set fires
SpecLive ==
  /\ InitLive
  /\ [][LiveNext]_vars
  /\ \A i \in 1..MaxSessions : WF_vars(SettleJson(i)) /\ WF_vars(RunAfterDelay(i))

\* Selection and search: the user's actions on the map, the list, the filter
\* input, the score button and the close control; detail fetches stay in flight
SelectNext ==
  \/ \E id \in PathIds : ClickPath(id)
  \/ \E i \in 1..Len(countryList) : ClickRow(i)
  \/ \E value \in FilterValues : FilterInput(value)
  \/ OpenPrank
  \/ OpenDetail
  \/ closePopup

SpecSelect == Init /\ [][SelectNext]_vars

-----------------------------------------------------------------------------
(* The score classifier applied to one score *)

ClassifyScores == 0..(100 * Denom)

InitClassify ==
  /\ UIInit
  /\ classifyCall \in {[NoClassify EXCEPT !.score = Num(s)] : s \in ClassifyScores}
  /\ sharesCall = NoShares
  /\ mergeCall = NoMerge
  /\ feedCall = NoFeed
  /\ searchCall = NoSearch
  /\ boot = NoBoot

Classify ==
  /\ ~classifyCall.done
  /\ classifyCall' = [classifyCall EXCEPT !.level = scoreToLevel(classifyCall.score),
                                          !.done = TRUE]
  /\ UNCHANGED <<sharesCall, mergeCall, feedCall, searchCall, boot>>
  /\ UNCHANGED uiVars

SpecClassify == InitClassify /\ [][Classify]_vars

-----------------------------------------------------------------------------
(* The share normaliser applied to three counts *)

Counts == 0..MaxCount

InitShares ==
  /\ UIInit
  /\ classifyCall = NoClassify
  /\ sharesCall \in {[NoShares EXCEPT !.pos = pos, !.neu = neu, !.neg = neg] :
                        pos \in Counts, neu \in Counts, neg \in Counts}
  /\ mergeCall = NoMerge
  /\ feedCall = NoFeed
  /\ searchCall = NoSearch
  /\ boot = NoBoot

Normalize ==
  /\ ~sharesCall.done
  /\ sharesCall' = [sharesCall EXCEPT
                      !.shares = calculateSentimentShares(sharesCall.pos, sharesCall.neu,
                                                          sharesCall.neg),
                      !.done = TRUE]
  /\ UNCHANGED <<classifyCall, mergeCall, feedCall, searchCall, boot>>
  /\ UNCHANGED uiVars

SpecShares == InitShares /\ [][Normalize]_vars

-----------------------------------------------------------------------------
(* The latest-news merge, loadLatestNews lines 232-246, applied to the     *)
(* lists the per-country fetches delivered, in the order of the paths      *)

ArticleIds == {"", "a", "b"}
ArticleUrls == {"", "u"}
ArticleTitles == {"", "t"}
ArticleDates == {Iso(1), Iso(2)}

Flatten(results) ==
  LET F[i \in 0..Len(results)] == IF i = 0 THEN <<>> ELSE F[i - 1] \o results[i]
  IN  F[Len(results)]

ArticleValues ==
  [id : ArticleIds, url : ArticleUrls, title : ArticleTitles, summary : {""},
   published_at : ArticleDates]

\* the per-country lists: country e delivers the articles of flat it owns
Group(flat, owner) ==
  [e \in 1..Len(Paths) |->
     [j \in 1..Cardinality({i \in 1..Len(flat) : owner[i] = e}) |->
        flat[Cardinality({i \in 1..Len(flat) : owner[i] < e}) + j]]]

\* results.flat().map(article => ...)
FlatWithMs(results) ==
  LET flat == Flatten(results)
  IN  [i \in 1..Len(flat) |-> WithMs(flat[i], i)]

LatestTwenty(results) ==
  Slice(SortByMsDesc(dedupeArticles(FlatWithMs(results))), GLOBAL_LIMIT)

InitMerge ==
  /\ UIInit
  /\ classifyCall = NoClassify
  /\ sharesCall = NoShares
  /\ feedCall = NoFeed
  /\ searchCall = NoSearch
  /\ boot = NoBoot
  /\ \E n \in 0..MaxArticles :
       \E flat \in [1..n -> ArticleValues], owner \in [1..n -> 1..Len(Paths)] :
         /\ \A i \in 1..n, j \in 1..n : i <= j => owner[i] <= owner[j]
         /\ mergeCall = [NoMerge EXCEPT !.results = Group(flat, owner)]

LoadLatestNews ==
  /\ ~mergeCall.done
  /\ LET latestTwenty == LatestTwenty(mergeCall.results)
     IN  mergeCall' = [mergeCall EXCEPT
                        !.latestTwenty = latestTwenty,
                        !.list = renderArticles(latestTwenty, NO_ARTICLES_GLOBAL),
                        !.placeholderDisplay = IF Len(latestTwenty) > 0 THEN "none" ELSE "",
                        !.done = TRUE]
  /\ UNCHANGED <<classifyCall, sharesCall, feedCall, searchCall, boot>>
  /\ UNCHANGED uiVars

SpecMerge == InitMerge /\ [][LoadLatestNews]_vars

-----------------------------------------------------------------------------
(* Ordering and truncation of one article list: the global feed, lines     *)
(* 233-246, and the popup's list, lines 404-419. The articles have         *)
(* distinct ids; one of them carries a date of its own                     *)

FeedPatterns == {"ascending", "descending", "same", "epoch", "before"}
\* no date, an unreadable date, dates before, at and after the epoch
FeedSpecialDates == {Str(""), Str("n/a"), Iso(-5), Iso(0), Iso(50)}

PatternDate(pattern, i, n) ==
  CASE pattern = "ascending" -> Iso(i)
    [] pattern = "descending" -> Iso(n + 1 - i)
    [] pattern = "epoch" -> Iso(0)
    [] pattern = "before" -> Iso(0 - i)
    [] OTHER -> Iso(3)

FeedArticles(n, pattern, k, special) ==
  [i \in 1..n |->
     Article(ToString(i), "", "t",
             IF i = k THEN special ELSE PatternDate(pattern, i, n))]

InitFeed ==
  /\ UIInit
  /\ classifyCall = NoClassify
  /\ sharesCall = NoShares
  /\ mergeCall = NoMerge
  /\ searchCall = NoSearch
  /\ boot = NoBoot
  /\ \E n \in 0..MaxFeed, pattern \in FeedPatterns, mode \in {"global", "popup"} :
       \E k \in 1..n, special \in FeedSpecialDates :
         feedCall = [NoFeed EXCEPT !.articles = FeedArticles(n, pattern, k, special),
                                   !.mode = mode]

AsJson(articles) == Arr([i \in 1..Len(articles) |-> Obj(articles[i])])

\* loadLatestNews over the list one country delivered
FeedGlobal ==
  /\ ~feedCall.done
  /\ feedCall.mode = "global"
  /\ feedCall' = [feedCall EXCEPT
                    !.out = renderArticles(LatestTwenty(<<feedCall.articles>>),
                                           NO_ARTICLES_GLOBAL),
                    !.done = TRUE]
  /\ UNCHANGED <<classifyCall, sharesCall, mergeCall, searchCall, boot>>
  /\ UNCHANGED uiVars

\* the article list of openPopup over data.latest_articles
FeedPopup ==
  /\ ~feedCall.done
  /\ feedCall.mode = "popup"
  /\ LET data == Detail(Num(50 * Denom), Num(0), Num(Len(feedCall.articles)),
                        Undef, AsJson(feedCall.articles), Undef)
     IN  feedCall' = [feedCall EXCEPT !.out = RenderNews(InitialPopup, data.v).dom.news,
                                      !.done = TRUE]
  /\ UNCHANGED <<classifyCall, sharesCall, mergeCall, searchCall, boot>>
  /\ UNCHANGED uiVars

FeedNext == FeedGlobal \/ FeedPopup

SpecFeed == InitFeed /\ [][FeedNext]_vars

-----------------------------------------------------------------------------
(* relevanceScore and highlightMatch applied to one label and one query,   *)
(* and relevanceScore applied to a re-spelling of both                     *)

StLucia == <<"S", "t", ".", " ", "L", "u", "c", "i", "a">>
SearchLabels == {France, Netherlands, Bosnia, Turkiye, StLucia}
QueryChars == {"a", "n", "e", "h", "t", "u", "U+00FC", " ", "."}
SearchQueries ==
  {<<>>} \cup {<<c>> : c \in QueryChars}
         \cup {<<c, d>> : c \in QueryChars, d \in QueryChars}

\* re-spellings of a string: other letter case, diacritics removed or added
Spellings == {"same", "upper", "lower", "plain", "marked"}
PlainChar(c) ==
  CASE c = "U+00FC" -> "u" [] c = "U+00DC" -> "U"
    [] c = "U+00E9" -> "e" [] c = "U+00C9" -> "E" [] OTHER -> c
MarkedChar(c) ==
  CASE c = "u" -> "U+00FC" [] c = "U" -> "U+00DC"
    [] c = "e" -> "U+00E9" [] c = "E" -> "U+00C9" [] OTHER -> c
Respell(spelling, str) ==
  [i \in 1..Len(str) |->
     CASE spelling = "upper" -> ToUpper(str[i])
       [] spelling = "lower" -> ToLower(str[i])
       [] spelling = "plain" -> PlainChar(str[i])
       [] spelling = "marked" -> MarkedChar(str[i])
       [] OTHER -> str[i]]

InitSearch ==
  /\ UIInit
  /\ classifyCall = NoClassify
  /\ sharesCall = NoShares
  /\ mergeCall = NoMerge
  /\ feedCall = NoFeed
  /\ boot = NoBoot
  /\ \E name \in SearchLabels, query \in SearchQueries :
       \E nameSpelling \in Spellings, querySpelling \in Spellings :
         searchCall = [NoSearch EXCEPT !.name = name, !.query = query,
                                       !.name2 = Respell(nameSpelling, name),
                                       !.query2 = Respell(querySpelling, query)]

\* what the filter handler computes for one row, lines 698-717
RankAndMark ==
  /\ ~searchCall.done
  /\ searchCall' = [searchCall EXCEPT
                      !.score = relevanceScore(searchCall.name, searchCall.query),
                      !.score2 = relevanceScore(searchCall.name2, searchCall.query2),
                      !.markup = highlightMatch(searchCall.name, searchCall.query),
                      !.done = TRUE]
  /\ UNCHANGED <<classifyCall, sharesCall, mergeCall, feedCall, boot>>
  /\ UNCHANGED uiVars

SpecSearch == InitSearch /\ [][RankAndMark]_vars

-----------------------------------------------------------------------------
(* The DOMContentLoaded handler, await by await: loadDataVersion,          *)
(* loadCountryScores, loadLatestNews, then colouring, list and listeners.  *)

\* what fetch(`countries/${code}.json`) can end in
Unreachable == [kind |-> "reject", data |-> Undef]
NotOk == [kind |-> "notOk", data |-> Undef]
Unparsable == [kind |-> "badJson", data |-> Undef]
Json(data) == [kind |-> "json", data |-> data]

OneArticle == Arr(<<Obj(Article("a3", "u3", "Third", Iso(3)))>>)

SourcesAndArticles ==
  Obj([Detail(Num(50 * Denom), Num(2), Num(3), Sentiment(2, 1, 0), TwoArticles, Iso(7)).v
         EXCEPT !.sources = Num(0)])

BootRecords == {
  \* the JSON text "null"
  JsonNull,
  \* a scored country with two articles
  Detail(Num(50 * Denom), Num(2), Num(3), Sentiment(2, 1, 0), TwoArticles, Iso(7)),
  \* articles counted, but neither a score nor a list
  Detail(Undef, Undef, Num(2), Undef, Undef, Undef),
  \* a score held as text
  Detail(Str("high"), Undef, Num(2), Undef, Undef, Undef),
  \* no count: the length of latest_articles serves
  Detail(Num(20 * Denom), Undef, Undef, Undef, OneArticle, Undef),
  \* a score without articles
  Detail(Num(70 * Denom), Num(-1), Num(0), Sentiment(0, 0, 0), Arr(<<>>), Iso(8)),
  \* a null entry in latest_articles
  Detail(Num(95 * Denom), Num(0), Num(1), Sentiment(1, 1, 1), Arr(<<JsonNull>>), Iso(9)),
  \* both counts present: sources is 0, articles is 3
  SourcesAndArticles }

BootResponses == {Unreachable, NotOk, Unparsable} \cup {Json(d) : d \in BootRecords}

\* the two paths whose resource is either missing or the scored record
SteadyResponses ==
  {NotOk,
   Json(Detail(Num(50 * Denom), Num(2), Num(3), Sentiment(2, 1, 0), TwoArticles, Iso(7)))}

\* what fetch(`countries/index.json`) can end in
\* "ok" is {last_updated: "v1"}, "noToken" a JSON body without last_updated
IndexResponses == {"ok", "noToken", "notOk", "reject", "badJson"}

InitBoot ==
  /\ UIInit
  /\ classifyCall = NoClassify
  /\ sharesCall = NoShares
  /\ mergeCall = NoMerge
  /\ feedCall = NoFeed
  /\ searchCall = NoSearch
  /\ \E index \in IndexResponses, responses \in [PathIds -> BootResponses] :
       /\ responses["XK"] \in SteadyResponses
       /\ responses["NL"] \in SteadyResponses
       /\ boot = [NoBoot EXCEPT !.index = index, !.responses = responses,
                                !.phase = "version"]

\* fetch(url).then(res => (res.ok ? res.json() : null)).catch(() => null)
fetchCountryData(response) ==
  IF response.kind = "json" THEN response.data ELSE JsonNull

\* data.latest_articles?.length
LatestLength(data) ==
  IF data.v.latest_articles.t = "array" THEN Num(Len(data.v.latest_articles.v)) ELSE Undef

\* Number(x) || 0
NumberOrZero(x) == IF x.t = "number" THEN x.v ELSE 0

\* one task of loadCountryScores: countryScores[code], countryArticleCounts[code]
SummaryTask(response) ==
  LET data == fetchCountryData(response)
      articleCount ==
        NumberOrZero(Coalesce(data.v.sources,
                       Coalesce(data.v.articles, Coalesce(LatestLength(data), Num(0)))))
  IN  IF ~Truthy(data)
      THEN [score |-> Num(NEUTRAL_SCORE * Denom), articleCount |-> 0]
      ELSE [score |-> IF articleCount > 0 /\ data.v.score.t = "number"
                      THEN data.v.score ELSE Num(NEUTRAL_SCORE * Denom),
            articleCount |-> articleCount]

\* faulty variant: a failed entity hands on an entry that cannot be read
NewsTaskPassesFailure(response) ==
  LET data == fetchCountryData(response)
  IN  IF ~Truthy(data) THEN <<JsonNull>>
      ELSE IF data.v.latest_articles.t # "array" THEN <<>>
      ELSE data.v.latest_articles.v

\* one task of loadLatestNews
NewsTask(response) ==
  LET data == fetchCountryData(response)
  IN  IF ~Truthy(data) \/ data.v.latest_articles.t # "array" THEN <<>>
      ELSE data.v.latest_articles.v

\* await Promise.all(tasks), in document order
NewsResults(responses) == [i \in 1..Len(Paths) |-> NewsTask(responses[Paths[i].id])]

\* article.published_at of a null entry throws a TypeError
NewsThrows(results) ==
  \E i \in 1..Len(results) : \E j \in 1..Len(results[i]) : results[i][j].t = "null"

\* the entries as the article objects they are
ArticlesOf(results) ==
  [i \in 1..Len(results) |-> [j \in 1..Len(results[i]) |-> results[i][j].v]]

\* loadDataVersion, lines 589-594: the token, null, or a rejection
loadDataVersion(index) ==
  CASE index = "reject" -> [threw |-> TRUE, value |-> Null]   \* await fetch(...) rejects
    [] index = "notOk" -> [threw |-> FALSE, value |-> Null]   \* if (!res.ok) return null
    [] index = "badJson" -> [threw |-> TRUE, value |-> Null]  \* await res.json() rejects
    [] index = "noToken" -> [threw |-> FALSE, value |-> Null] \* idx?.last_updated || null
    [] OTHER -> [threw |-> FALSE, value |-> "v1"]

\* the query of fetchCountryData's url, lines 111-112
VersionQuery(version) ==
  IF version # Null
  THEN [name |-> "v", kind |-> "encodeURIComponent", value |-> version]
  ELSE [name |-> "v", kind |-> "Date.now", value |-> Null]

\* line 596
LoadDataVersion ==
  /\ boot.phase = "version"
  /\ LET loaded == loadDataVersion(boot.index)
     IN  boot' = IF loaded.threw THEN [boot EXCEPT !.phase = "aborted"]
                 ELSE [boot EXCEPT !.phase = "scores", !.DATA_VERSION = loaded.value]
  /\ UNCHANGED <<classifyCall, sharesCall, mergeCall, feedCall, searchCall>>
  /\ UNCHANGED uiVars

\* line 597
LoadCountryScores ==
  /\ boot.phase = "scores"
  /\ boot' = [boot EXCEPT
                !.summaries = [id \in PathIds |-> SummaryTask(boot.responses[id])],
                !.summaryQuery = VersionQuery(boot.DATA_VERSION),
                !.settled = PathIds,
                !.phase = "news"]
  /\ UNCHANGED <<classifyCall, sharesCall, mergeCall, feedCall, searchCall>>
  /\ UNCHANGED uiVars

\* line 598
BootLoadLatestNews ==
  /\ boot.phase = "news"
  /\ LET results == NewsResults(boot.responses)
         latestTwenty == LatestTwenty(ArticlesOf(results))
     IN  boot' = IF NewsThrows(results)
                 THEN [boot EXCEPT !.newsQuery = VersionQuery(boot.DATA_VERSION),
                                   !.results = results,
                                   !.phase = "aborted"]
                 ELSE [boot EXCEPT
                         !.newsQuery = VersionQuery(boot.DATA_VERSION),
                         !.results = results,
                         !.latestTwenty = latestTwenty,
                         !.list = renderArticles(latestTwenty, NO_ARTICLES_GLOBAL),
                         !.placeholderDisplay = IF Len(latestTwenty) > 0 THEN "none" ELSE "",
                         !.phase = "render"]
  /\ UNCHANGED <<classifyCall, sharesCall, mergeCall, feedCall, searchCall>>
  /\ UNCHANGED uiVars

\* lines 600-735: colouring, click listeners, the country list, the filter
BootRender ==
  /\ boot.phase = "render"
  /\ boot' = [boot EXCEPT
                !.fill = [id \in PathIds |-> FillFor(boot.summaries[id])],
                !.countryList = BootCountryList,
                !.listeners = TRUE,
                !.phase = "ready"]
  /\ UNCHANGED <<classifyCall, sharesCall, mergeCall, feedCall, searchCall>>
  /\ UNCHANGED uiVars

BootNext ==
  \/ LoadDataVersion
  \/ LoadCountryScores
  \/ BootLoadLatestNews
  \/ BootRender

SpecBoot == InitBoot /\ [][BootNext]_vars

\* the handler's record once it has run to its end with the summaries of
\* BootSummaries and the freshness token version (null when none was supplied)
Booted(version) ==
  [NoBoot EXCEPT !.index = IF version = Null THEN "notOk" ELSE "ok",
                 !.phase = "ready", !.DATA_VERSION = version,
                 !.summaries = BootSummaries,
                 !.summaryQuery = VersionQuery(version),
                 !.newsQuery = VersionQuery(version),
                 !.list = renderArticles(<<>>, NO_ARTICLES_GLOBAL),
                 !.fill = [id \in PathIds |-> BootFill(id)],
                 !.countryList = BootCountryList,
                 !.listeners = TRUE,
                 !.settled = PathIds]

InitFresh ==
  /\ UIInit
  /\ classifyCall = NoClassify
  /\ sharesCall = NoShares
  /\ mergeCall = NoMerge
  /\ feedCall = NoFeed
  /\ searchCall = NoSearch
  /\ \E version \in {Null, "v1"} : boot = Booted(version)

\* Detail fetches after the bootstrap: selecting a path, the score button,
\* and the frame after which a session issues its fetch
FreshNext ==
  \/ \E id \in PathIds : ClickPath(id)
  \/ OpenDetail
  \/ \E i \in 1..Len(sessions) : NextFrame(i)

SpecFresh == InitFresh /\ [][FreshNext]_vars

-----------------------------------------------------------------------------
(* The two bulk loads task by task: every path has its own fetch, and the  *)
(* fetches of one Promise.all settle in any order.                         *)

\* an article another country's record repeats under the same id
Reprint == Arr(<<Obj(Article("a1", "u9", "Reprint", Iso(1)))>>)

TaskResponses ==
  {Unreachable,
   Json(Detail(Num(50 * Denom), Num(2), Num(3), Sentiment(2, 1, 0), TwoArticles, Iso(7))),
   Json(Detail(Num(20 * Denom), Undef, Undef, Undef, Reprint, Undef)),
   Json(Detail(Num(95 * Denom), Num(0), Num(1), Sentiment(1, 1, 1), Arr(<<JsonNull>>), Iso(9)))}

InitTasks ==
  /\ UIInit
  /\ classifyCall = NoClassify
  /\ sharesCall = NoShares
  /\ mergeCall = NoMerge
  /\ feedCall = NoFeed
  /\ searchCall = NoSearch
  /\ \E index \in {"ok", "reject"}, ba \in TaskResponses, fr \in TaskResponses,
        nl \in SteadyResponses :
       boot = [NoBoot EXCEPT
                 !.index = index,
                 !.responses = [id \in PathIds |->
                                  CASE id = "BA" -> ba
                                    [] id = "FR" -> fr
                                    [] id = "NL" -> nl
                                    [] id = "XK" -> NotOk
                                    [] OTHER -> Unparsable],
                 !.phase = "version"]

\* the position of a path among document.querySelectorAll("svg path")
IndexOf(id) == CHOOSE i \in 1..Len(Paths) : Paths[i].id = id

\* the fetches of the running Promise.all that have not settled
Pending == PathIds \ {boot.order[k] : k \in 1..Len(boot.order)}

\* every task of loadCountryScores up to its await: the presets of
\* lines 91-92 are written and the fetch is issued
StartSummaries ==
  /\ boot.phase = "scores"
  /\ boot' = [boot EXCEPT
                !.summaries = [id \in PathIds |->
                                 [score |-> Num(NEUTRAL_SCORE * Denom), articleCount |-> 0]],
                !.summaryQuery = VersionQuery(boot.DATA_VERSION),
                !.phase = "summaryTasks"]
  /\ UNCHANGED <<classifyCall, sharesCall, mergeCall, feedCall, searchCall>>
  /\ UNCHANGED uiVars

\* the rest of one task, lines 95-104: it writes under its own code
SummarySettles(id) ==
  /\ boot.phase = "summaryTasks"
  /\ id \in Pending
  /\ boot' = [boot EXCEPT
                !.summaries[id] = SummaryTask(boot.responses[id]),
                !.settled = @ \cup {id},
                !.order = Append(@, id)]
  /\ UNCHANGED <<classifyCall, sharesCall, mergeCall, feedCall, searchCall>>
  /\ UNCHANGED uiVars

\* Promise.all(tasks) of line 107 is fulfilled; loadLatestNews issues its fetches
StartNews ==
  /\ boot.phase = "summaryTasks"
  /\ Pending = {}
  /\ boot' = [boot EXCEPT
                !.newsQuery = VersionQuery(boot.DATA_VERSION),
                !.order = <<>>,
                !.results = [i \in 1..Len(Paths) |-> <<>>],
                !.phase = "newsTasks"]
  /\ UNCHANGED <<classifyCall, sharesCall, mergeCall, feedCall, searchCall>>
  /\ UNCHANGED uiVars

\* faulty variant: the values are gathered as the tasks finish
ResultIndexByCompletion(id, finished) == finished + 1

\* Promise.all keeps a task's value at the task's position in tasks
ResultIndex(id, finished) == IndexOf(id)

\* one task of loadLatestNews is fulfilled, lines 225-230
NewsSettles(id) ==
  /\ boot.phase = "newsTasks"
  /\ id \in Pending
  /\ boot' = [boot EXCEPT
                !.results[ResultIndex(id, Len(boot.order))] = NewsTask(boot.responses[id]),
                !.order = Append(@, id)]
  /\ UNCHANGED <<classifyCall, sharesCall, mergeCall, feedCall, searchCall>>
  /\ UNCHANGED uiVars

\* lines 232-246 once Promise.all(tasks) is fulfilled
MergeNews ==
  /\ boot.phase = "newsTasks"
  /\ Pending = {}
  /\ LET latestTwenty == LatestTwenty(ArticlesOf(boot.results))
     IN  boot' = IF NewsThrows(boot.results)
                 THEN [boot EXCEPT !.phase = "aborted"]
                 ELSE [boot EXCEPT
                         !.latestTwenty = latestTwenty,
                         !.list = renderArticles(latestTwenty, NO_ARTICLES_GLOBAL),
                         !.placeholderDisplay = IF Len(latestTwenty) > 0 THEN "none" ELSE "",
                         !.phase = "render"]
  /\ UNCHANGED <<classifyCall, sharesCall, mergeCall, feedCall, searchCall>>
  /\ UNCHANGED uiVars

TasksNext ==
  \/ LoadDataVersion
  \/ StartSummaries
  \/ \E id \in PathIds : SummarySettles(id)
  \/ StartNews
  \/ \E id \in PathIds : NewsSettles(id)
  \/ MergeNews
  \/ BootRender

SpecTasks == InitTasks /\ [][TasksNext]_vars

-----------------------------------------------------------------------------
(* Properties of the popup sessions (Spec) *)

\* the popup fields that make up the view-model
View(p) ==
  [title |-> p.title, countryScore |-> p.countryScore, assessment |-> p.assessment,
   countryTrend |-> p.countryTrend, countryArticles |-> p.countryArticles,
   news |-> p.news, errorHidden |-> p.errorHidden]

\* the popup a session leaves when it is the only one that ran
Alone(s) ==
  LET opened == OpenedPopup(InitialPopup, s.code)
      tried == TryRender(opened, s.data)
  IN  IF s.data.t = "undefined" THEN FinallyBlock(CatchBlock(opened))
      ELSE FinallyBlock(IF tried.threw THEN CatchBlock(tried.dom) ELSE tried.dom)

Latest == Len(sessions)

\* C1: when open(A) is followed by open(B) before A resolved, then once both
\* have resolved the view-model is the one of B alone, whichever resolved last.
C1_LatestSessionWins ==
  \A a \in 1..Len(sessions) :
    ( /\ a \in sessions[Latest].unresolved
      /\ sessions[a].pc = "done"
      /\ sessions[Latest].pc = "done" )
    => View(popup) = View(Alone(sessions[Latest]))

\* C2: while the newest session is still loading, a step of an older session
\* leaves the popup as it is (no field written, no indicator shown or hidden).
C2_SupersededSessionAbandoned ==
  [][\A i \in 1..Len(sessions) :
       ( /\ i < Latest
         /\ sessions[Latest].pc # "done"
         /\ Len(sessions') = Len(sessions)
         /\ sessions'[i] # sessions[i] )
       => popup' = popup]_vars

-----------------------------------------------------------------------------
(* Properties of selection and highlighting (SpecSelect) *)

MapActive ==
  {id \in PathIds : pathStyle[id].strokeWidth = "2" \/ pathStyle[id].fill = SELECTED_FILL}
ActiveRows == {i \in 1..Len(countryList) : countryList[i].active}
ListActive == {countryList[i].countryId : i \in ActiveRows}
HasRow(id) == \E i \in 1..Len(countryList) :
                ~countryList[i].section /\ countryList[i].countryId = id

\* C3 as stated: at most one path and at most one row are marked, and the two
\* views mark the same id or none, also for a selected path without a row.
C3_ViewsMarkSameId ==
  /\ Cardinality(MapActive) <= 1
  /\ Cardinality(ActiveRows) <= 1
  /\ ListActive = MapActive

\* C3 amended: at most one path and at most one row are marked; the list marks
\* the row of the path the map marks when that path has a row, and no row
\* when it has none.
C3_ViewsAgreeOnRows ==
  /\ Cardinality(MapActive) <= 1
  /\ Cardinality(ActiveRows) <= 1
  /\ \A i \in ActiveRows : ~countryList[i].section
  /\ ListActive = {id \in MapActive : HasRow(id)}

C3_Witness ==
  /\ MapActive = {"XK"}
  /\ ActiveRows = {}
  /\ selectedCountryEl = "XK"
  /\ filterValue # <<>>
  /\ Len(sessions) > 0
  /\ popup.overlayHidden

\* C4: the selected element is the path the last click named; exactly that
\* path is distinguished on the map, exactly its row (when it has one) is
\* active in the list, and every other path and row is unmarked.
C4_ExactlyLastSelectedMarked ==
  IF selectedCountryEl = Null
    THEN MapActive = {} /\ ActiveRows = {}
    ELSE /\ MapActive = {selectedCountryEl}
         /\ pathStyle[selectedCountryEl].strokeWidth = "2"
         /\ pathStyle[selectedCountryEl].fill = SELECTED_FILL
         /\ ListActive \subseteq {selectedCountryEl}
         /\ HasRow(selectedCountryEl) =>
              /\ Cardinality(ActiveRows) = 1
              /\ ListActive = {selectedCountryEl}

\* France selected after Bosnia and Herzegovina, whose detail was opened
C4_Witness ==
  /\ selectedCountryEl = "FR"
  /\ popup.title = Bosnia
  /\ MapActive = {"FR"}
  /\ ListActive = {"FR"}
  /\ pathStyle["BA"].strokeWidth = "0.5"

-----------------------------------------------------------------------------
(* Properties of the score classifier (SpecClassify) *)

BandsHolding(v) ==
  {i \in 1..Len(SCORE_LEVELS) :
     SCORE_LEVELS[i].min * Denom <= v /\ v <= SCORE_LEVELS[i].max * Denom}

\* C5: an integer score from 0 to 100 lies in exactly one band, and
\* scoreToLevel returns that band.
C5_IntegerScoreHasOneBand ==
  (classifyCall.done /\ classifyCall.score.v % Denom = 0)
    => /\ Cardinality(BandsHolding(classifyCall.score.v)) = 1
       /\ \A i \in BandsHolding(classifyCall.score.v) :
            classifyCall.level = SCORE_LEVELS[i]

C5_Witness ==
  /\ classifyCall.done
  /\ classifyCall.score = Num(9 * Denom)
  /\ classifyCall.level.label = "Damnation"

\* C6: every score in [0,100], integer or fractional, lies in exactly one
\* band and scoreToLevel returns a band for it.
C6_EveryScoreHasOneBand ==
  classifyCall.done
    => /\ Cardinality(BandsHolding(classifyCall.score.v)) = 1
       /\ classifyCall.level # NoLevel

-----------------------------------------------------------------------------
(* Properties of the share normaliser (SpecShares) *)

ShareList == <<sharesCall.shares.posShare, sharesCall.shares.neuShare,
               sharesCall.shares.negShare>>
CountList == <<sharesCall.pos, sharesCall.neu, sharesCall.neg>>
ZeroCategories == {i \in 1..3 : CountList[i] = 0}

\* C7: the three shares are non-negative and sum to 100.
C7_SharesSumTo100 ==
  sharesCall.done
    => /\ \A i \in 1..3 : ShareList[i].num >= 0 /\ ShareList[i].den > 0
       /\ ShareList[1].num * ShareList[2].den * ShareList[3].den
            + ShareList[2].num * ShareList[1].den * ShareList[3].den
            + ShareList[3].num * ShareList[1].den * ShareList[2].den
          = 100 * ShareList[1].den * ShareList[2].den * ShareList[3].den

C7_Witness ==
  /\ sharesCall.done
  /\ sharesCall.pos = 0 /\ sharesCall.neu = 0 /\ sharesCall.neg = 3
  /\ sharesCall.shares.negShare.num = 90 * sharesCall.shares.negShare.den

\* C8: the shares are 100/3 each when all counts are zero, count/total*100
\* when none is zero, and otherwise 5 for a zero count and
\* count / (sum of counts) * (100 - 5 * number of zero counts) for the others.
C8_SharesMatchReference ==
  sharesCall.done =>
    \A i \in 1..3 :
      LET share == ShareList[i]
          sum == CountList[1] + CountList[2] + CountList[3]
          zeros == Cardinality(ZeroCategories)
      IN  CASE zeros = 3 -> 3 * share.num = 100 * share.den
            [] zeros = 0 -> share.num * sum = CountList[i] * 100 * share.den
            [] OTHER -> IF i \in ZeroCategories
                          THEN share.num = 5 * share.den
                          ELSE share.num * sum
                                 = CountList[i] * (100 - 5 * zeros) * share.den

\* normalize(0, 1, 3): positive 5, neutral and negative share 95 as 1 : 3
C8_Witness ==
  /\ sharesCall.done
  /\ CountList = <<0, 1, 3>>
  /\ sharesCall.shares.posShare = Frac(5, 1)
  /\ 3 * sharesCall.shares.neuShare.num * sharesCall.shares.negShare.den
       = sharesCall.shares.negShare.num * sharesCall.shares.neuShare.den

-----------------------------------------------------------------------------
(* Properties of the latest-news merge (SpecMerge) *)

Flat == Flatten(mergeCall.results)
Output == mergeCall.latestTwenty
InOutput(i) == \E k \in 1..Len(Output) : Output[k].pos = i

\* the dedup key: the first non-empty of id, url, title
KeyOf(article) ==
  CASE article.id # "" -> article.id
    [] article.url # "" -> article.url
    [] OTHER -> article.title

\* C9 as stated: of two articles with the same url and different ids the
\* output contains only the first-seen.
C9_SameUrlKeepsFirst ==
  mergeCall.done =>
    \A i \in 1..Len(Flat), j \in 1..Len(Flat) :
      ( /\ i < j
        /\ Flat[i].url # "" /\ Flat[i].url = Flat[j].url
        /\ Flat[i].id # "" /\ Flat[j].id # "" /\ Flat[i].id # Flat[j].id )
      => InOutput(i) /\ ~InOutput(j)

\* C9 amended: of two articles with the same url and no id the output never
\* contains the later one; the earlier one is in the output unless an article
\* before it has the same key or the display limit cuts it.
C9_SameUrlNoIdKeepsFirst ==
  mergeCall.done =>
    \A i \in 1..Len(Flat), j \in 1..Len(Flat) :
      ( /\ i < j
        /\ Flat[i].url # "" /\ Flat[i].url = Flat[j].url
        /\ Flat[i].id = "" /\ Flat[j].id = "" )
      => /\ ~InOutput(j)
         /\ \/ InOutput(i)
            \/ \E h \in 1..(i - 1) : KeyOf(Flat[h]) = Flat[i].url
            \/ Len(Output) = GLOBAL_LIMIT

C9_Witness ==
  /\ mergeCall.done
  /\ Len(Flat) = 2
  /\ Flat[1].id = "" /\ Flat[2].id = ""
  /\ Flat[1].url = "u" /\ Flat[2].url = "u"
  /\ Flat[1].title # Flat[2].title
  /\ Len(Output) = 1 /\ Output[1].pos = 1

\* C10: no two articles of the output share a dedup key, and the article the
\* output holds for a key is the first of the flattened input with that key,
\* whatever the publish times.
C10_FirstSeenPerKey ==
  mergeCall.done =>
    /\ \A k \in 1..Len(Output), l \in 1..Len(Output) :
         k # l => KeyOf(Output[k]) # KeyOf(Output[l])
    /\ \A k \in 1..Len(Output) :
         /\ Output[k].pos \in 1..Len(Flat)
         /\ KeyOf(Output[k]) = KeyOf(Flat[Output[k].pos])
         /\ Output[k].title = Flat[Output[k].pos].title
         /\ Output[k].published_at = Flat[Output[k].pos].published_at
         /\ \A i \in 1..Len(Flat) :
              KeyOf(Flat[i]) = KeyOf(Output[k]) => Output[k].pos <= i

\* the later of two articles with one id is the newer one, and is dropped
C10_Witness ==
  /\ mergeCall.done
  /\ Len(Flat) = 2
  /\ Flat[1].id = "a" /\ Flat[2].id = "a"
  /\ Flat[1].published_at = Iso(1) /\ Flat[2].published_at = Iso(2)
  /\ Len(mergeCall.results[1]) = 1
  /\ Len(Output) = 1 /\ Output[1].pos = 1

-----------------------------------------------------------------------------
(* Properties of the ordering and truncation of a feed (SpecFeed) *)

FeedLimit == IF feedCall.mode = "global" THEN GLOBAL_LIMIT ELSE POPUP_LIMIT
\* the articles listed, in the order listed
Listed == SelectSeq(feedCall.out, LAMBDA item : item.pos # 0)
ParsedTime(i) == DateParse(feedCall.articles[i].published_at)
Parsable(i) == ParsedTime(i).t = "number"

\* the articles listed are in descending order of the parsed publish time
C11_DescendingParsedTime ==
  \A k \in 1..Len(Listed), l \in 1..Len(Listed) :
    (k < l /\ Parsable(Listed[k].pos) /\ Parsable(Listed[l].pos))
      => ParsedTime(Listed[k].pos).v >= ParsedTime(Listed[l].pos).v

\* no article with an unparsable time is listed before one with a parsable time
C11_UnparsableLast ==
  \A k \in 1..Len(Listed), l \in 1..Len(Listed) :
    (k < l /\ Parsable(Listed[l].pos)) => Parsable(Listed[k].pos)

\* at most the limit is listed, and no article left out is newer than a listed one
C11_TruncatedToNewest ==
  /\ Len(Listed) <= FeedLimit
  /\ \A i \in 1..Len(feedCall.articles) :
       (\A k \in 1..Len(Listed) : Listed[k].pos # i)
         => /\ Len(Listed) = FeedLimit
            /\ Parsable(i) =>
                 \A k \in 1..Len(Listed) :
                   /\ Parsable(Listed[k].pos)
                   /\ ParsedTime(Listed[k].pos).v >= ParsedTime(i).v

\* C11: the feed is in descending order of the parsed publish time, an
\* article whose time cannot be parsed never precedes one whose time can,
\* and the feed is cut to 20 (global) or 12 (popup) articles, the newest.
C11_OrderedUnparsableLastTruncated ==
  feedCall.done =>
    /\ C11_DescendingParsedTime
    /\ C11_UnparsableLast
    /\ C11_TruncatedToNewest

-----------------------------------------------------------------------------
(* Properties of the relevance score (SpecSearch) *)

\* a character without its case and its diacritical mark
FoldChar(c) ==
  CASE c \in {"U+00FC", "U+00DC"} -> "u"
    [] c \in {"U+00E9", "U+00C9"} -> "e"
    [] OTHER -> ToLower(c)
Fold(str) == [i \in 1..Len(str) |-> FoldChar(str[i])]

OccursAt(label, i, q) ==
  /\ i >= 1 /\ i + Len(q) - 1 <= Len(label)
  /\ SubSeq(label, i, i + Len(q) - 1) = q
\* some word of the label, a maximal run without blanks, starts with q
WordStartsWith(label, q) ==
  /\ \A k \in 1..Len(q) : q[k] # " "
  /\ \E i \in 1..Len(label) :
       /\ label[i] # " "
       /\ i = 1 \/ label[i - 1] = " "
       /\ OccursAt(label, i, q)

ReferenceScore(label, query) ==
  IF query = <<>> THEN 1
  ELSE LET l == Fold(label)
           q == Fold(query)
       IN  CASE OccursAt(l, 1, q) -> 300
             [] ~OccursAt(l, 1, q) /\ WordStartsWith(l, q) -> 200
             [] ~OccursAt(l, 1, q) /\ ~WordStartsWith(l, q)
                  /\ (\E i \in 1..Len(l) : OccursAt(l, i, q)) -> 100
             [] OTHER -> 0

-----------------------------------------------------------------------------
(* Properties of the filtered list (SpecSelect) *)

TrimmedQuery == Trim(filterValue)
Rows == {i \in 1..Len(countryList) : ~countryList[i].section}
Headers == {i \in 1..Len(countryList) : countryList[i].section}
\* the header a row stands under
HeaderOf(i) == CHOOSE h \in Headers : h < i /\ \A g \in Headers : g < i => g <= h
Visible(i) == countryList[i].display = ""
RowScore(i) == ReferenceScore(countryList[i].originalName, TrimmedQuery)

\* C13: the visible rows of a section are exactly its rows with a score
\* above 0 (all its rows when the trimmed query is empty), in descending
\* order of score and, at equal score, ascending order of the original
\* label; a header is visible exactly when a row under it is. No row leaves
\* its section.
C13_VisibleRowsRanked ==
  /\ 1 \in Headers
  /\ \A i \in Rows : Visible(i) <=> (TrimmedQuery = <<>> \/ RowScore(i) > 0)
  /\ \A i \in Rows, j \in Rows :
       (i < j /\ HeaderOf(i) = HeaderOf(j) /\ Visible(i) /\ Visible(j))
         => \/ RowScore(i) > RowScore(j)
            \/ /\ RowScore(i) = RowScore(j)
               /\ ~LocaleLess(countryList[j].originalName, countryList[i].originalName)
  /\ \A h \in Headers :
       Visible(h) <=> \E i \in Rows : HeaderOf(i) = h /\ Visible(i)
  /\ \A i \in Rows :
       \E k \in 1..Len(BootCountryList) :
         /\ ~BootCountryList[k].section
         /\ BootCountryList[k].countryId = countryList[i].countryId
         /\ \E g \in 1..k :
              /\ BootCountryList[g].section
              /\ BootCountryList[g].html = countryList[HeaderOf(i)].html
              /\ \A f \in (g + 1)..k : ~BootCountryList[f].section
  /\ Len(countryList) = Len(BootCountryList)

\* "n": Netherlands (prefix) before France (occurrence), Turkiye hidden
C13_Witness ==
  /\ filterValue = <<"n">>
  /\ \E i \in Rows, j \in Rows :
       /\ i < j /\ Visible(i) /\ Visible(j)
       /\ countryList[i].countryId = "NL" /\ countryList[j].countryId = "FR"
  /\ \E i \in Rows : countryList[i].countryId = "TR" /\ ~Visible(i)

-----------------------------------------------------------------------------
(* Properties of the highlighter (SpecSearch) *)

Markers == {"<mark>", "</mark>"}
Markup == searchCall.markup
Unmarked(markup) == SelectSeq(markup, LAMBDA c : c \notin Markers)
SameLetters(a, b) ==
  /\ Len(a) = Len(b)
  /\ \A k \in 1..Len(a) : ToLower(a[k]) = ToLower(b[k])
\* the query occurs in the label at offset i, letter case aside
QueryOccursAt(i) ==
  /\ i >= 1 /\ i + Len(searchCall.query) - 1 <= Len(searchCall.name)
  /\ SameLetters(SubSeq(searchCall.name, i, i + Len(searchCall.query) - 1),
                 searchCall.query)

\* C14: for the empty query the label is returned unchanged; otherwise every
\* marked stretch is an occurrence of the query itself (letter case aside,
\* special characters taken literally), an occurrence of the query is marked
\* when there is one, and removing the markers yields the original label.
C14_HighlightKeepsLabel ==
  searchCall.done =>
    /\ searchCall.query = <<>> => Markup = searchCall.name
    /\ Unmarked(Markup) = searchCall.name
    /\ \A i \in 1..Len(Markup) :
         /\ Markup[i] = "<mark>" =>
              /\ searchCall.query # <<>>
              /\ i + Len(searchCall.query) + 1 <= Len(Markup)
              /\ Markup[i + Len(searchCall.query) + 1] = "</mark>"
              /\ SameLetters(SubSeq(Markup, i + 1, i + Len(searchCall.query)),
                             searchCall.query)
         /\ Markup[i] = "</mark>" =>
              /\ i - Len(searchCall.query) - 1 >= 1
              /\ Markup[i - Len(searchCall.query) - 1] = "<mark>"
    /\ (searchCall.query # <<>> /\ \E i \in 1..Len(searchCall.name) : QueryOccursAt(i))
         => \E i \in 1..Len(Markup) : Markup[i] = "<mark>"

\* "St. Lucia" with the query ".": only the full stop is marked
C14_Witness ==
  /\ searchCall.done
  /\ searchCall.name = StLucia
  /\ searchCall.query = <<".">>
  /\ Markup = <<"S", "t", "<mark>", ".", "</mark>", " ", "L", "u", "c", "i", "a">>

-----------------------------------------------------------------------------
(* Properties of the popup's outcome (Spec) *)

Nullish(x) == x.t \in {"undefined", "null"}
\* the article count of a payload: articles, else sources, else the length
\* of latest_articles, else 0
ArticleCountOf(d) ==
  CASE ~Nullish(d.articles) -> d.articles
    [] Nullish(d.articles) /\ ~Nullish(d.sources) -> d.sources
    [] Nullish(d.articles) /\ Nullish(d.sources) /\ d.latest_articles.t = "array"
         -> Num(Len(d.latest_articles.v))
    [] OTHER -> Num(0)
ZeroArticles(data) == data.t = "object" /\ ArticleCountOf(data.v) = Num(0)
\* session i finishes in this step
Ends(i) == sessions[i].pc # "done" /\ sessions'[i].pc = "done"

Fails(i) == Ends(i) /\ sessions'[i].result = "failed"

\* C16: when a session ends in Failed, the score, the assessment, the
\* trend, the article count and the last-updated field all show the dash,
\* so that no value of the failed payload stays visible.
C16_FailedShowsDashes ==
  [][\A i \in 1..Len(sessions) :
       Fails(i) => /\ popup'.countryScore = Str(DASH)
                   /\ popup'.assessment = Str(DASH)
                   /\ popup'.countryTrend = Str(DASH)
                   /\ popup'.countryArticles = Str(DASH)
                   /\ popup'.lastUpdated = Str(DASH)]_vars

\* C17: when a session ends in Failed, the sentiment section is hidden, the
\* error indicator is shown and the popup's article list holds the
\* empty-state message and nothing else.
C17_FailedHidesSentimentListsNothing ==
  [][\A i \in 1..Len(sessions) :
       Fails(i) => /\ popup'.sentimentDisplay = "none"
                   /\ ~popup'.errorHidden
                   /\ Len(popup'.news) = 1
                   /\ popup'.news[1].pos = 0
                   /\ popup'.news[1].title = NO_ARTICLES_COUNTRY
                   /\ popup'.news[1].href = ""]_vars

\* a session fails on a null entry after an earlier one listed two articles
C17_Witness ==
  /\ Len(sessions) = 2
  /\ sessions[1].pc = "done" /\ sessions[1].result = "ready"
  /\ sessions[1].data.t = "object"
  /\ sessions[1].data.v.latest_articles = TwoArticles
  /\ sessions[2].unresolved = {}
  /\ sessions[2].pc = "done" /\ sessions[2].result = "failed"
  /\ sessions[2].data.t = "object"
  /\ popup.news = <<EmptyItem(NO_ARTICLES_COUNTRY)>>
  /\ popup.sentimentDisplay = "none"
  /\ ~popup.errorHidden

-----------------------------------------------------------------------------
(* Properties of the bootstrap run (SpecBoot) *)

\* the fetch of this id delivered no record: rejected, non-OK, unparsable, or null
NoRecord(response) == fetchCountryData(response).t = "null"

\* C18: after bulk summary loading an id whose fetch failed or whose response
\* is malformed has article count 0 and no score at all, and the summary of
\* every id is what that id's own response alone determines.
C18_FailedIdHasNoScore ==
  boot.summaries # <<>> =>
    \A id \in PathIds :
      /\ NoRecord(boot.responses[id]) =>
           /\ boot.summaries[id].articleCount = 0
           /\ boot.summaries[id].score = Undef
      /\ \A responses \in [PathIds -> {boot.responses[id], NotOk}] :
           responses[id] = boot.responses[id] =>
             SummaryTask(responses[id]) = boot.summaries[id]

\* C19: nothing in one entity's data stops the bootstrap: the handler is
\* abandoned only when the index itself cannot be fetched or parsed.
C19_EntityDataNeverStopsBootstrap ==
  boot.phase = "aborted" => boot.index \in {"reject", "badJson"}

\* the entity delivers a latest_articles array
Contributes(response) ==
  /\ ~NoRecord(response)
  /\ fetchCountryData(response).v.latest_articles.t = "array"

\* the lists of the entities that deliver one, in document order
RemainingLists ==
  LET remaining == SelectSeq(Paths, LAMBDA c : Contributes(boot.responses[c.id]))
  IN  [i \in 1..Len(remaining) |->
         LET list == fetchCountryData(boot.responses[remaining[i].id]).v.latest_articles.v
         IN  [j \in 1..Len(list) |-> list[j].v]]

HoldsNullEntry(response) ==
  /\ Contributes(response)
  /\ \E j \in 1..Len(fetchCountryData(response).v.latest_articles.v) :
       fetchCountryData(response).v.latest_articles.v[j].t = "null"

\* C20: in the global feed merge an entity whose fetch fails or whose record
\* has no latest_articles array contributes nothing and does not abort the
\* merge: the feed is the merge of the remaining entities' lists.
C20_FailingEntityContributesNothing ==
  /\ boot.phase \in {"render", "ready"} =>
       /\ boot.latestTwenty = LatestTwenty(RemainingLists)
       /\ boot.list = renderArticles(LatestTwenty(RemainingLists), NO_ARTICLES_GLOBAL)
  /\ (boot.phase = "aborted" /\ boot.index \notin {"reject", "badJson"}) =>
       \E id \in PathIds : HoldsNullEntry(boot.responses[id])

C20_Witness ==
  /\ boot.phase = "ready"
  /\ boot.responses["BA"] = Unreachable
  /\ boot.responses["FR"] = Unparsable
  /\ boot.responses["XK"] = NotOk
  /\ ~NoRecord(boot.responses["TR"]) /\ ~Contributes(boot.responses["TR"])
  /\ Contributes(boot.responses["NL"])
  /\ Len(boot.latestTwenty) = 2

-----------------------------------------------------------------------------
(* Properties of the version endpoint and the map colours (SpecBoot) *)

IndexUnavailable == boot.index \in {"notOk", "reject", "badJson"}

\* C21: when the version endpoint is unavailable (non-OK status, network
\* error or unparsable body) the bootstrap still goes on: nothing but an
\* entity's data can stop it, the summaries are fetched with the substituted
\* nonce, and a finished bootstrap has the list and the handlers installed.
C21_BootstrapSurvivesVersionEndpoint ==
  IndexUnavailable =>
    /\ boot.phase = "aborted" => \E id \in PathIds : HoldsNullEntry(boot.responses[id])
    /\ boot.summaryQuery # NoQuery => boot.summaryQuery.kind = "Date.now"
    /\ boot.phase = "ready" => boot.listeners /\ boot.countryList = BootCountryList

\* the record delivered for id carries no numeric score
NoNumericScore(response) ==
  /\ ~NoRecord(response)
  /\ fetchCountryData(response).v.score.t # "number"

BandColours == {SCORE_LEVELS[i].color : i \in 1..Len(SCORE_LEVELS)}

\* C22: an entity whose summary record has no numeric score is painted as
\* no-data and never in the colour of a score band, whatever article count
\* its record reports.
C22_NoScoreIsNoData ==
  boot.phase = "ready" =>
    \A id \in PathIds :
      NoNumericScore(boot.responses[id]) =>
        /\ boot.fill[id] = "#bdbdbd"
        /\ boot.fill[id] \notin BandColours

-----------------------------------------------------------------------------
(* Properties of the selection: clearing (SpecSelect) *)

\* a step of the page after which nothing is selected and nothing is marked
ClearStep ==
  /\ selectedCountryEl' = Null
  /\ SelectNext
  /\ \A id \in PathIds : pathStyle'[id].strokeWidth # "2" /\ pathStyle'[id].fill # SELECTED_FILL
  /\ \A i \in 1..Len(countryList') : ~countryList'[i].active

\* C23: in every state with a selection the page offers a clear-selection
\* step, after which no path and no row is marked and nothing is selected.
C23_ClearAvailable ==
  selectedCountryEl # Null => ENABLED ClearStep

-----------------------------------------------------------------------------
(* Properties of a popup session's course and content (Spec) *)

\* C24: in every session the minimum-latency delay lies between the fetch
\* outcome and the step that hides the loading indicator and finalizes the
\* state, on the error paths too: a session ends only out of its delay.
C24_DelayBeforeFinalized ==
  [][\A i \in 1..Len(sessions) : Ends(i) => sessions[i].pc = "delay"]_vars

\* the article a listed item was made from
ListedArticle(data, item) == data.v.latest_articles.v[item.pos].v

\* C26: the article list of a popup that ends in Ready holds no two
\* articles with the same dedup key (first non-empty of id, url, title).
C26_ReadyListIsDeduplicated ==
  [][\A i \in 1..Len(sessions) :
       (Ends(i) /\ sessions'[i].result = "ready")
         => \A k, l \in 1..Len(popup'.news) :
              (k < l /\ popup'.news[k].pos # 0 /\ popup'.news[l].pos # 0)
                => KeyOf(ListedArticle(sessions'[i].data, popup'.news[k]))
                     # KeyOf(ListedArticle(sessions'[i].data, popup'.news[l]))]_vars

\* the trend field for the number d: text and direction
TrendShown(d) ==
  CASE d = 0 -> [countryTrend |-> Str("= 0"), trendClass |-> {}]
    [] d > 0 -> [countryTrend |-> [t |-> "up +", v |-> d], trendClass |-> {"up"}]
    [] OTHER -> [countryTrend |-> [t |-> "down", v |-> d], trendClass |-> {"down"}]

\* C27: for a payload with articles, a trend given as {delta: d} is shown as
\* the trend given as the number d is: same text, same direction.
C27_DeltaObjectShownAsNumber ==
  [][\A i \in 1..Len(sessions) :
       ( /\ Ends(i) /\ sessions'[i].result = "ready"
         /\ ~ZeroArticles(sessions'[i].data)
         /\ sessions'[i].data.v.trend.t = "object"
         /\ sessions'[i].data.v.trend.v.delta.t = "number" )
       => /\ popup'.countryTrend = TrendShown(sessions'[i].data.v.trend.v.delta.v).countryTrend
          /\ popup'.trendClass = TrendShown(sessions'[i].data.v.trend.v.delta.v).trendClass]_vars

-----------------------------------------------------------------------------
(* Properties of the freshness token (SpecFresh) *)

\* C25: when the version endpoint supplied a token, every per-entity fetch
\* of the session carries its value as a query parameter: the bulk summary
\* fetches, the fetches of the global feed and every popup's detail fetch.
C25_EveryFetchCarriesToken ==
  boot.DATA_VERSION # Null =>
    /\ boot.summaryQuery.value = boot.DATA_VERSION
    /\ boot.newsQuery.value = boot.DATA_VERSION
    /\ \A i \in 1..Len(sessions) :
         sessions[i].query # NoQuery => sessions[i].query.value = boot.DATA_VERSION

-----------------------------------------------------------------------------
(* Properties of Loading, closing and ending (Spec) *)

\* the popup shows Loading with every field blank
LoadingBlank(p) ==
  /\ ~p.loadingHidden /\ p.dataHidden /\ p.errorHidden
  /\ p.sentimentDisplay = ""
  /\ p.countryScore = Str("") /\ p.countryTrend = Str("")
  /\ p.countryArticles = Str("") /\ p.assessment = Str("")
  /\ p.sentPos = Str("") /\ p.sentNeu = Str("") /\ p.sentNeg = Str("")
  /\ p.lastUpdated = Str("")
  /\ p.news = <<>>

\* the fetch of session i has not resolved
AwaitsFetch(i) == sessions[i].pc \in {"frame", "fetch"}

\* C28: from open(id) until that session's fetch resolves the popup is in
\* Loading: the loading indicator shown, the data section and the error
\* hidden, the sentiment section un-hidden and every field blank, whatever
\* the previous session left behind.
C28_LoadingIsBlank ==
  (Len(sessions) > 0 /\ AwaitsFetch(Latest)) => LoadingBlank(popup)

\* C29: close() hides the popup whatever the sessions' states, and a hidden
\* popup becomes visible only by the next open(): no step of a session in
\* flight, such as a fetch resolving after close(), shows it again.
C29_ClosedStaysHidden ==
  [][ /\ closePopup => popup'.overlayHidden
      /\ (popup.overlayHidden /\ ~popup'.overlayHidden)
           => Len(sessions') = Len(sessions) + 1 ]_vars

\* hidden after a Failed session, with a later session past its fetch and
\* still Loading
C29_Witness ==
  /\ popup.overlayHidden
  /\ Len(sessions) = 2
  /\ sessions[1].result = "failed"
  /\ sessions[2].pc = "delay"
  /\ ~popup.loadingHidden

\* C30: every session whose fetch settles leaves Loading: it ends, in
\* exactly one of Ready or Failed, with the loading indicator hidden and the
\* data section shown; a session that ran with no other in flight shows the
\* error exactly when it ended in Failed.
C30_SettledSessionEnds ==
  /\ [][\A i \in 1..Len(sessions) :
          Ends(i) => /\ sessions'[i].result \in {"ready", "failed"}
                     /\ popup'.loadingHidden
                     /\ ~popup'.dataHidden
                     /\ (i = Latest /\ sessions[i].unresolved = {})
                          => (sessions'[i].result = "failed") = ~popup'.errorHidden]_vars
  /\ \A i \in 1..MaxSessions :
       (i <= Len(sessions) /\ sessions[i].pc \in {"json", "delay"})
         ~> (i <= Len(sessions) /\ sessions[i].pc = "done")

\* one session ended in Ready, the next in Failed on a payload that threw
C30_Witness ==
  /\ Len(sessions) = 2
  /\ sessions[1].pc = "done" /\ sessions[1].result = "ready"
  /\ sessions[2].pc = "done" /\ sessions[2].result = "failed"
  /\ sessions[2].data # Undef
  /\ popup.loadingHidden /\ ~popup.dataHidden /\ ~popup.errorHidden

-----------------------------------------------------------------------------
\* the handler has coloured a path, built the list or installed the listeners
Rendered == boot.fill # <<>> \/ boot.countryList # <<>> \/ boot.listeners

\* C31: during bootstrap the map is coloured, the list built and the select
\* and open-detail handlers installed only after every per-entity summary
\* fetch has settled, and once every fetch has settled the handler is never
\* abandoned: it goes on to its end whichever fetches failed.
C31_RenderAfterSettledAndCompletes ==
  /\ Rendered => boot.settled = PathIds
  /\ boot.settled = PathIds => boot.phase # "aborted"

-----------------------------------------------------------------------------
\* the payload is a record whose article count is a number above 0
HasArticles(data) ==
  /\ data.t = "object"
  /\ ArticleCountOf(data.v).t = "number"
  /\ ArticleCountOf(data.v).v > 0

\* the bands that contain the score of a payload
BandsOfScore(data) ==
  IF data.v.score.t = "number" THEN BandsHolding(data.v.score.v) ELSE {}

-----------------------------------------------------------------------------
\* the popup's score and assessment for a record, as a session opened on
\* that record renders them
PopupScoreFor(data) ==
  RenderScore(InitialPopup, data.v, PopupArticleCount(data.v)).dom

\* the popup shows the no-data placeholders for the record
PopupNoData(data) ==
  /\ PopupScoreFor(data).countryScore = Str(NO_DATA_SCORE_TEXT)
  /\ PopupScoreFor(data).assessment = Str(NO_DATA_ASSESSMENT_TEXT)

\* C33: once the page is set up, for every path whose record was delivered
\* the map and the popup agree about no-data: the path has the no-data fill
\* exactly when a popup opened on the same record shows the no-data
\* placeholders, and the article count kept by summary loading equals the
\* article count the popup derives from the record.
C33_MapAndPopupAgreeOnNoData ==
  boot.phase = "ready" =>
    \A id \in PathIds :
      LET data == fetchCountryData(boot.responses[id])
      IN  data.t = "object" =>
            /\ (boot.fill[id] = "#bdbdbd") <=> PopupNoData(data)
            /\ Num(boot.summaries[id].articleCount) = PopupArticleCount(data.v)

-----------------------------------------------------------------------------
\* the rendered label of row i holds an emphasis marker
Marked(i) == \E k \in 1..Len(countryList[i].html) : countryList[i].html[k] = "<mark>"

\* C34: while the filter holds a non-empty query, every row it leaves
\* visible has at least one emphasis marker in its rendered label.
C34_VisibleRowIsMarked ==
  TrimmedQuery # <<>> => \A i \in Rows : Visible(i) => Marked(i)

-----------------------------------------------------------------------------
\* the ids of the rows that stand under the header titled title in list
IdsUnder(list, title) ==
  {k \in 1..Len(list) :
     /\ ~list[k].section
     /\ \E h \in 1..k : /\ list[h].section /\ list[h].html = title
                         /\ \A g \in (h + 1)..k : ~list[g].section}
SectionTitles == {BootCountryList[k].html : k \in {j \in 1..Len(BootCountryList) :
                                                      BootCountryList[j].section}}

\* C35: whatever was typed into the filter so far, every section holds
\* exactly the rows it was built with, each once; and while the query is
\* empty or only white space every row is visible, its label is the plain
\* original label, the rows of a section stand in ascending alphabetical
\* order, and the header of every section that has rows is shown.
C35_SectionsKeepRowsAndEmptyQueryRestores ==
  /\ \A title \in SectionTitles :
       /\ {countryList[k].countryId : k \in IdsUnder(countryList, title)}
            = {BootCountryList[k].countryId : k \in IdsUnder(BootCountryList, title)}
       /\ Cardinality(IdsUnder(countryList, title))
            = Cardinality(IdsUnder(BootCountryList, title))
  /\ Cardinality(Rows) = Cardinality({k \in 1..Len(BootCountryList) :
                                         ~BootCountryList[k].section})
  /\ TrimmedQuery = <<>> =>
       /\ \A i \in Rows :
            /\ Visible(i)
            /\ countryList[i].html = countryList[i].originalName
            /\ ~Marked(i)
       /\ \A i \in Rows, j \in Rows :
            (i < j /\ HeaderOf(i) = HeaderOf(j))
              => LocaleLess(countryList[i].originalName, countryList[j].originalName)
       /\ \A h \in Headers : (\E i \in Rows : HeaderOf(i) = h) => Visible(h)

\* a query of one blank: France stands before Netherlands again, Bosnia and
\* Herzegovina before Turkiye, all plain and visible
C35_Witness ==
  /\ filterValue = <<" ">>
  /\ \A i \in Rows : Visible(i) /\ ~Marked(i)
  /\ \E i \in Rows, j \in Rows :
       /\ i < j /\ countryList[i].countryId = "FR" /\ countryList[j].countryId = "NL"
  /\ \E i \in Rows, j \in Rows :
       /\ i < j /\ countryList[i].countryId = "BA" /\ countryList[j].countryId = "TR"
  /\ \E i \in Rows : countryList[i].active

-----------------------------------------------------------------------------
\* C36: after any sequence of selections every path other than the selected
\* one is drawn with the fill it was given when the page was set up (a band
\* colour or the no-data colour) and, once a selection was made, the thin
\* stroke; the selected path has the selection fill and the thick stroke;
\* the fill kept for restoring a path is never changed.
C36_OthersKeepOriginalFill ==
  \A id \in PathIds :
    /\ pathStyle[id].originalFill = BootFill(id)
    /\ BootFill(id) \in BandColours \cup {"#bdbdbd"}
    /\ id # selectedCountryEl =>
         /\ pathStyle[id].fill = BootFill(id)
         /\ pathStyle[id].strokeWidth = IF selectedCountryEl = Null THEN "" ELSE "0.5"
    /\ id = selectedCountryEl =>
         /\ pathStyle[id].fill = SELECTED_FILL
         /\ pathStyle[id].strokeWidth = "2"

\* Bosnia and Herzegovina was selected and its detail opened, then the
\* Netherlands selected: Bosnia and Herzegovina has its band colour back
C36_Witness ==
  /\ selectedCountryEl = "NL"
  /\ popup.title = Bosnia
  /\ pathStyle["BA"].fill = scoreToColor(Num(50 * Denom))
  /\ pathStyle["BA"].fill # SELECTED_FILL
  /\ pathStyle["BA"].strokeWidth = "0.5"
  /\ pathStyle["XK"].fill = "#bdbdbd"
  /\ pathStyle["NL"].fill = SELECTED_FILL

-----------------------------------------------------------------------------
\* what a summary task leaves under its code before its fetch settles
Preset == [score |-> Num(NEUTRAL_SCORE * Denom), articleCount |-> 0]

\* the feed computed from the responses taken in document order
FeedInEntityOrder == LatestTwenty(ArticlesOf(NewsResults(boot.responses)))

\* C37: in whatever order the per-entity fetches complete, a summary task
\* writes only the entries of its own id (an id whose fetch has not settled
\* still has its presets, a settled one has the summary of its own
\* response), so the finished summary map is a function of the responses
\* alone; and the news feed, with its first-seen-wins choice, is the one
\* computed from the per-entity lists in entity order.
C37_LoadsIndependentOfCompletionOrder ==
  /\ boot.phase \in {"summaryTasks", "newsTasks", "render", "ready"} =>
       \A id \in PathIds :
         boot.summaries[id] = IF id \in boot.settled
                                THEN SummaryTask(boot.responses[id]) ELSE Preset
  /\ boot.phase \in {"newsTasks", "render", "ready"} => boot.settled = PathIds
  /\ boot.phase \in {"render", "ready"} =>
       /\ boot.latestTwenty = FeedInEntityOrder
       /\ boot.list = renderArticles(FeedInEntityOrder, NO_ARTICLES_GLOBAL)

\* the news fetches completed in reverse document order; article a1 is held
\* by the first path as "Older" and by the second as "Reprint", and the feed
\* lists the first path's
C37_Witness ==
  /\ boot.phase = "ready"
  /\ boot.order = <<"NL", "TR", "XK", "FR", "BA">>
  /\ boot.responses["BA"]
       = Json(Detail(Num(50 * Denom), Num(2), Num(3), Sentiment(2, 1, 0), TwoArticles, Iso(7)))
  /\ boot.responses["FR"] = Json(Detail(Num(20 * Denom), Undef, Undef, Undef, Reprint, Undef))
  /\ \E k \in 1..Len(boot.latestTwenty) :
       boot.latestTwenty[k].id = "a1" /\ boot.latestTwenty[k].title = "Older"
  /\ \A k \in 1..Len(boot.latestTwenty) : boot.latestTwenty[k].title # "Reprint"
  /\ boot.summaries["FR"].score = Num(20 * Denom)

=============================================================================
